---- MODULE Spec2Model ----
(***************************************************************************)
(* AfriLend loan accounting.  Two implementations of the loan engine are   *)
(* modelled side by side:                                                  *)
(*   - the on-chain ledger, contracts/AfriLendLoanManager.sol, whose       *)
(*     functions run as atomic transactions;                               *)
(*   - the off-chain ledger of the server: the loan controller, the Loan   *)
(*     model (a Firestore document) and the loan service's event handlers, *)
(*     whose handlers are async functions that interleave at every await.  *)
(* On the chain amounts are integers in the smallest unit (wei) and        *)
(* durations are whole days (the contract's 365 days * 10000 divisor is    *)
(* 365 * 10000 day-units, the 86400 cancels).  The server's amounts are    *)
(* JavaScript Numbers: its concurrent handlers are modelled with amounts   *)
(* counted exactly in units of 0.01, and its funding arithmetic is         *)
(* modelled a second time, handler by handler, on binary64 values.         *)
(* The liquidity pools are modelled the same way, on their own ledgers:    *)
(* the LenderPool contract, and the server's pool controller with the pool *)
(* service's handlers of the contract's liquidity events.  So are the      *)
(* reputation scores (the Reputation contract and the server's user        *)
(* service) and the in-memory backend of src/backend, whose services are   *)
(* synchronous calls on the tables of config/database.                     *)
(***************************************************************************)
EXTENDS Integers, Naturals, Sequences, FiniteSets, TLC

\* ------------------------------------------------------------------ bounds
\* Number of loans the on-chain ledger may create in a behaviour.
MaxLoans == 1
\* Number of server requests that may be in flight at once.
NumSlots == 2
\* Number of requests and events the server handles in a behaviour.
MaxRequests == 5
\* Number of pools the LenderPool contract may create in a behaviour.
MaxPools == 1

\* Accounts / user ids.
Users == {"ann", "bob", "cy"}
\* The users that ask for loans.
Borrowers == {"ann"}

\* ----------------------------------------------------- on-chain constants
\* AfriLendLoanManager.sol constants.  Amounts are in wei; the two amount
\* limits (0.01 ether and 100 ether) are scaled down by 10^14 so that the
\* values stay small: every division of the contract is kept as it is.
MIN_LOAN_AMOUNT == 100
MAX_LOAN_AMOUNT == 1000000
MIN_INTEREST_RATE == 5
MAX_INTEREST_RATE == 50
MIN_DURATION == 30
MAX_DURATION == 365
DAYS_PER_YEAR == 365
RATE_DIVISOR == 10000
\* The scale of the two rate bounds as the contract states them: 5 is "5%"
\* and 50 is "50%", parts per hundred.
RATE_BOUNDS_DENOMINATOR == 100

\* Inputs offered to the contract.
ChainLoanAmounts == {50, 100, 200}
ChainRates == {50, 60}
ChainDurations == {365, 400}
ChainValues == {0, 50, 100, 150, 201, 250}
\* Instants of block.timestamp the behaviours visit (days).
TimePoints == {0, 365, 366}

\* The ledgers share no state, so every behaviour of the system projects
\* onto a behaviour of each of them and the properties below speak of one
\* ledger at a time: a behaviour drives the ledger chosen by `ledger`, the
\* chain ("chain"), the server with its handlers interleaved ("server"), or
\* the server's funding handlers run one after the other on JavaScript
\* Numbers ("number"), the pools of the contract ("pool") or of the server
\* ("poolserver"), the reputation of the contract ("reputation") or of the
\* server ("repserver"), or the in-memory backend ("backend").
VARIABLE ledger

VARIABLES loanCounter, loans, now, lenderShare, excess, balance, lastTx
VARIABLES loanDoc, req, response, served
\* The loan document with its amounts as JavaScript Numbers.
VARIABLE numDoc
\* The pools of the LenderPool contract; the pool document of the server and
\* the contract events not yet handed to the server's pool service.
VARIABLES poolCounter, pools, poolDoc, events
\* The record Reputation.sol keeps of a user and the events its last
\* transaction emitted; the reputation document of the server.
VARIABLES reputations, repLog, repDoc
\* The tables of the in-memory backend (config/database).
VARIABLE db

chainVars == <<loanCounter, loans, now, lenderShare, excess, balance, lastTx>>
poolVars == <<poolCounter, pools, poolDoc, events>>
repVars == <<reputations, repLog, repDoc>>

\* A transaction of the loan manager: the server's state is left alone.
OnChain ==
  /\ ledger = "chain"
  /\ UNCHANGED <<ledger, loanDoc, req, response, served, numDoc, poolVars, repVars, db>>
\* A step of a server handler: the chain's state is left alone.
OnServer ==
  ledger = "server" /\ UNCHANGED <<ledger, chainVars, numDoc, poolVars, repVars, db>>
\* A whole server handler run on Numbers.
OnNumber ==
  /\ ledger = "number"
  /\ UNCHANGED <<ledger, chainVars, loanDoc, req, response, poolVars, repVars, db>>
\* A transaction of the LenderPool contract (lastTx and balance are those of
\* the contract the behaviour drives).
OnPool ==
  /\ ledger = "pool"
  /\ UNCHANGED <<ledger, loanCounter, loans, now, lenderShare, excess, loanDoc,
                 req, response, served, numDoc, poolDoc, events, repVars, db>>
\* A step of a handler of the server's pool controller or pool service.
OnPoolServer ==
  /\ ledger = "poolserver"
  /\ UNCHANGED <<ledger, chainVars, loanDoc, numDoc, poolCounter, pools, repVars, db>>
\* A transaction of the Reputation contract (lastTx is that of the contract
\* the behaviour drives).
OnReputation ==
  /\ ledger = "reputation"
  /\ UNCHANGED <<ledger, loanCounter, loans, now, lenderShare, excess, balance,
                 loanDoc, req, response, numDoc, poolVars, repDoc, db>>
\* A call of a service of the in-memory backend (now is its clock and lastTx
\* the outcome of its last call).
OnBackend ==
  /\ ledger = "backend"
  /\ UNCHANGED <<ledger, loanCounter, loans, lenderShare, excess, balance,
                 loanDoc, req, response, served, numDoc, poolVars, repVars>>
\* A call of the server's userService.updateUserReputation.
OnRepServer ==
  /\ ledger = "repserver"
  /\ UNCHANGED <<ledger, chainVars, loanDoc, req, response, served, numDoc,
                 poolVars, reputations, repLog, db>>

LoanIds == 0 .. (MaxLoans - 1)

NoContribution == [u \in Users |-> 0]

\* A storage slot of _loans before createLoan has written it.
EmptyLoan ==
  [borrower |-> "none", amount |-> 0, fundedAmount |-> 0, interestRate |-> 0,
   duration |-> 0, createdAt |-> 0, dueDate |-> 0, status |-> "Pending",
   lenders |-> <<>>, lenderContributions |-> NoContribution]

RECURSIVE SumOver(_, _)
SumOver(f, S) ==
  IF S = {} THEN 0
  ELSE LET x == CHOOSE y \in S : TRUE IN f[x] + SumOver(f, S \ {x})

Range(s) == {s[i] : i \in 1 .. Len(s)}

\* modifier onlyValidLoan
onlyValidLoan(loanId) == loanId < loanCounter

\* modifier onlyBorrower
onlyBorrower(loanId, sender) == loans[loanId].borrower = sender

\* modifier onlyActiveLoan
onlyActiveLoan(loanId) == loans[loanId].status = "Active"

\* calculateRepaymentAmount(loanId) of the contract
calculateRepaymentAmount(loan) ==
  LET principal == loan.fundedAmount
      interest == (principal * loan.interestRate * loan.duration)
                    \div (DAYS_PER_YEAR * RATE_DIVISOR)
  IN principal + interest

\* The share repayLoan transfers to one lender.
LenderShareOf(loan, lender) ==
  (loan.lenderContributions[lender] * calculateRepaymentAmount(loan))
     \div loan.fundedAmount

ChainInit ==
  /\ loanCounter = 0
  /\ loans = [i \in LoanIds |-> EmptyLoan]
  /\ now = 0
  /\ lenderShare = [i \in LoanIds |-> NoContribution]
  /\ excess = [i \in LoanIds |-> 0]
  /\ balance = 0
  /\ lastTx = [fn |-> "none", result |-> "none"]

\* The outcome of a transaction: "ok", or the message of the require that
\* reverted it (a reverted transaction changes no storage and moves no value).
Tx(fn, result) == [fn |-> fn, result |-> result]

\* createLoan's requires without the one on the purpose.
createLoan_check_noPurpose(amount, interestRate, duration, purposeLen) ==
  IF ~(amount >= MIN_LOAN_AMOUNT /\ amount <= MAX_LOAN_AMOUNT)
    THEN "Invalid loan amount"
  ELSE IF ~(interestRate >= MIN_INTEREST_RATE /\ interestRate <= MAX_INTEREST_RATE)
    THEN "Invalid interest rate"
  ELSE IF ~(duration >= MIN_DURATION /\ duration <= MAX_DURATION)
    THEN "Invalid duration"
  ELSE "ok"

\* The first failing require of createLoan, "ok" when none fails.
createLoan_check(amount, interestRate, duration, purposeLen) ==
  IF ~(amount >= MIN_LOAN_AMOUNT /\ amount <= MAX_LOAN_AMOUNT)
    THEN "Invalid loan amount"
  ELSE IF ~(interestRate >= MIN_INTEREST_RATE /\ interestRate <= MAX_INTEREST_RATE)
    THEN "Invalid interest rate"
  ELSE IF ~(duration >= MIN_DURATION /\ duration <= MAX_DURATION)
    THEN "Invalid duration"
  ELSE IF ~(purposeLen > 0) THEN "Purpose cannot be empty"
  ELSE "ok"

\* createLoan(amount, interestRate, duration, purpose)
createLoan(sender, amount, interestRate, duration, purposeLen) ==
  LET res == createLoan_check(amount, interestRate, duration, purposeLen) IN
  /\ loanCounter < MaxLoans
  /\ OnChain
  /\ lastTx' = Tx("createLoan", res)
  /\ IF res = "ok"
     THEN /\ loans' = [loans EXCEPT ![loanCounter] =
                 [borrower |-> sender, amount |-> amount, fundedAmount |-> 0,
                  interestRate |-> interestRate, duration |-> duration,
                  createdAt |-> now, dueDate |-> now + duration,
                  status |-> "Pending", lenders |-> <<>>,
                  lenderContributions |-> NoContribution]]
          /\ loanCounter' = loanCounter + 1
     ELSE UNCHANGED <<loans, loanCounter>>
  /\ UNCHANGED <<now, lenderShare, excess, balance>>

\* The first failing require of fundLoan, "ok" when none fails.
fundLoan_check(loanId, value) ==
  IF ~onlyValidLoan(loanId) THEN "Loan does not exist"
  ELSE IF ~(loans[loanId].status = "Pending")
    THEN "Loan is not available for funding"
  ELSE IF ~(value > 0) THEN "Funding amount must be greater than 0"
  ELSE IF ~(value <= loans[loanId].amount - loans[loanId].fundedAmount)
    THEN "Funding amount exceeds remaining loan amount"
  ELSE "ok"

\* fundLoan(loanId) payable
fundLoan(sender, loanId, value) ==
  LET loan == loans[loanId]
      res == fundLoan_check(loanId, value)
  IN
  /\ OnChain
  /\ lastTx' = Tx("fundLoan", res)
  /\ IF res = "ok"
     THEN LET funded == loan.fundedAmount + value
              lenderExists == \E i \in 1 .. Len(loan.lenders) : loan.lenders[i] = sender
          IN /\ loans' = [loans EXCEPT ![loanId] =
                    [loan EXCEPT
                       !.fundedAmount = funded,
                       !.lenderContributions[sender] = @ + value,
                       !.lenders = IF lenderExists THEN @ ELSE Append(@, sender),
                       !.status = IF funded >= loan.amount THEN "Active" ELSE @]]
             /\ balance' = balance + value
     ELSE UNCHANGED <<loans, balance>>
  /\ UNCHANGED <<loanCounter, now, lenderShare, excess>>

\* A repayLoan that asks for more than the repayment amount.
repayLoan_check_strict(sender, loanId, value) ==
  IF ~onlyValidLoan(loanId) THEN "Loan does not exist"
  ELSE IF ~onlyBorrower(loanId, sender) THEN "Only borrower can perform this action"
  ELSE IF ~onlyActiveLoan(loanId) THEN "Loan is not active"
  ELSE IF ~(value > calculateRepaymentAmount(loans[loanId]))
    THEN "Insufficient repayment amount"
  ELSE IF ~(now <= loans[loanId].dueDate) THEN "Loan has expired"
  ELSE "ok"

\* The first failing modifier or require of repayLoan, "ok" when none fails.
repayLoan_check(sender, loanId, value) ==
  IF ~onlyValidLoan(loanId) THEN "Loan does not exist"
  ELSE IF ~onlyBorrower(loanId, sender) THEN "Only borrower can perform this action"
  ELSE IF ~onlyActiveLoan(loanId) THEN "Loan is not active"
  ELSE IF ~(value >= calculateRepaymentAmount(loans[loanId]))
    THEN "Insufficient repayment amount"
  ELSE IF ~(now <= loans[loanId].dueDate) THEN "Loan has expired"
  ELSE "ok"

\* A repayLoan that keeps the excess payment.
repayLoan_excess_kept(value, repaymentAmount) == 0

\* The excess payment repayLoan transfers back to msg.sender.
repayLoan_excess(value, repaymentAmount) ==
  IF value > repaymentAmount THEN value - repaymentAmount ELSE 0

\* repayLoan(loanId) payable
repayLoan(sender, loanId, value) ==
  LET loan == loans[loanId]
      repaymentAmount == calculateRepaymentAmount(loan)
      res == repayLoan_check(sender, loanId, value)
  IN
  /\ OnChain
  /\ lastTx' = Tx("repayLoan", res)
  /\ IF res = "ok"
     THEN LET paid == [u \in Users |->
                         IF u \in Range(loan.lenders) THEN LenderShareOf(loan, u) ELSE 0]
              back == repayLoan_excess(value, repaymentAmount)
          IN /\ lenderShare' = [lenderShare EXCEPT ![loanId] = paid]
             /\ excess' = [excess EXCEPT ![loanId] = back]
             /\ balance' = balance + value - SumOver(paid, Users) - back
             /\ loans' = [loans EXCEPT ![loanId].status = "Repaid"]
     ELSE UNCHANGED <<loans, lenderShare, excess, balance>>
  /\ UNCHANGED <<loanCounter, now>>

\* calculateRepaymentAmount(loanId) called from outside: a view function, it
\* answers the amount (in decimal) and writes nothing.
calculateRepaymentAmount_view(loanId) ==
  /\ OnChain
  /\ lastTx' = Tx("calculateRepaymentAmount",
                  IF ~onlyValidLoan(loanId) THEN "Loan does not exist"
                  ELSE ToString(calculateRepaymentAmount(loans[loanId])))
  /\ UNCHANGED <<loanCounter, loans, now, lenderShare, excess, balance>>

\* block.timestamp moves on to the next instant.
Tick ==
  /\ OnChain
  /\ \E t \in TimePoints :
        /\ t > now
        /\ \A u \in TimePoints : u > now => t <= u
        /\ now' = t
  /\ UNCHANGED <<loanCounter, loans, lenderShare, excess, balance, lastTx>>

ChainNext ==
  \/ \E s \in Borrowers, a \in ChainLoanAmounts, r \in ChainRates,
        d \in ChainDurations, p \in {0, 1} : createLoan(s, a, r, d, p)
  \/ \E s \in Users, l \in LoanIds, v \in ChainValues : fundLoan(s, l, v)
  \/ \E s \in Users, l \in LoanIds, v \in ChainValues : repayLoan(s, l, v)
  \/ \E l \in LoanIds : calculateRepaymentAmount_view(l)
  \/ Tick

\* ------------------------------------------------------ off-chain ledger
\* Cap on the funded amount LoanFunded events may build up (the handler
\* itself has no limit).
FundedCap == 120

\* Joi schemas of the routes, amounts in units of 0.01.
JOI_MIN_AMOUNT == 1
JOI_MAX_LOAN_AMOUNT == 10000
JOI_MIN_RATE == 5
JOI_MAX_RATE == 50
JOI_MIN_DURATION == 30
JOI_MAX_DURATION == 365
\* purpose: Joi.string().min(10).max(500), as lengths.
JOI_MIN_PURPOSE == 10
JOI_MAX_PURPOSE == 500
\* Loan.calculateRepaymentAmount divides by (365 * 100).
JS_RATE_DIVISOR == 100

\* Inputs offered to the server.
SrvLoanAmounts == {60, 100, 20000}
SrvRates == {10, 60}
SrvDurations == {20, 365}
\* Lengths of the purpose string of a creation body.
SrvPurposes == {0, 10}
SrvFundAmounts == {0, 60}
SrvRepayAmounts == {60, 66}
EventAmounts == {60}
\* The accounts LoanFunded events name as lenders.
EventLenders == {"bob", "cy"}
\* Request bodies of PUT /api/loans/:id (the route validates nothing).
UpdateBodies ==
  {[description |-> "text"], [status |-> "active"], [status |-> "repaid"],
   [fundedAmount |-> 120]}

srvVars == <<loanDoc, req, response, served>>
vars == <<ledger, loanCounter, loans, now, lenderShare, excess, balance, lastTx,
          loanDoc, req, response, served, numDoc, poolCounter, pools, poolDoc,
          events, reputations, repLog, repDoc, db>>

Slots == 1 .. NumSlots

\* No document under the loan's id in the 'loans' collection.
NoDoc == [exists |-> FALSE]

IdleReq ==
  [op |-> "none", pc |-> "idle", user |-> "none", amount |-> 0,
   body |-> <<>>, loan |-> NoDoc]

\* The answer of the handler that returned last; settled tells whether the
\* settlement adapter had moved value for that request.
Resp(op, code, settled) == [op |-> op, code |-> code, settled |-> settled]

Free(s) == req[s].pc = "idle"

\* A handler is entered: one more request or event is being served.
Enter == served < MaxRequests /\ served' = served + 1
\* A handler already entered goes on.
Continue == UNCHANGED served

\* new Loan(data) in Loan.create followed by toFirestore(): the fields of
\* the document that the accounting reads or writes; the due date is
\* Date.now() plus the duration (in days), and defaultedAt is <<>> while the
\* field is undefined.
Loan(borrowerId, amount, interestRate, duration) ==
  [exists |-> TRUE, borrowerId |-> borrowerId, amount |-> amount,
   fundedAmount |-> 0, interestRate |-> interestRate, duration |-> duration,
   dueDate |-> now + duration, status |-> "pending", lenders |-> <<>>,
   lenderContributions |-> NoContribution, defaultedAt |-> <<>>]

\* loanRef.update(data): the named fields are replaced, the others kept.
FirestoreUpdate(doc, data) ==
  [f \in DOMAIN doc |-> IF f \in DOMAIN data THEN data[f] ELSE doc[f]]

\* Loan.calculateRepaymentAmount() is principal + principal*rate*duration/36500
\* in floating point; Loan_repaymentScaled is that value times 36500.
Loan_repaymentScaled(loan) ==
  LET principal == loan.fundedAmount
  IN principal * (DAYS_PER_YEAR * JS_RATE_DIVISOR)
       + principal * loan.interestRate * loan.duration

\* amount < repaymentAmount in Loan.repayLoan
Loan_insufficient(loan, amount) ==
  amount * (DAYS_PER_YEAR * JS_RATE_DIVISOR) < Loan_repaymentScaled(loan)

\* Loan.fundLoan(lenderId, amount): the instance after the in-memory update.
Loan_fundLoan(loan, lenderId, amount) ==
  LET funded == loan.fundedAmount + amount
  IN [loan EXCEPT
        !.lenders = IF lenderId \in Range(@) THEN @ ELSE Append(@, lenderId),
        !.lenderContributions[lenderId] = @ + amount,
        !.fundedAmount = funded,
        !.status = IF funded >= loan.amount THEN "active" ELSE @]

\* The fields Loan.fundLoan passes to loanRef.update.
Loan_fundLoan_fields(loan) ==
  [lenders |-> loan.lenders, lenderContributions |-> loan.lenderContributions,
   fundedAmount |-> loan.fundedAmount, status |-> loan.status]

SrvInit ==
  /\ loanDoc = NoDoc
  /\ req = [s \in Slots |-> IdleReq]
  /\ response = Resp("none", "none", FALSE)
  /\ served = 0

\* validateSchema(schemas.loanCreation) on the amounts and the purpose of the
\* body
loanCreation_valid(amount, interestRate, duration, purposeLen) ==
  /\ amount >= JOI_MIN_AMOUNT /\ amount <= JOI_MAX_LOAN_AMOUNT
  /\ interestRate >= JOI_MIN_RATE /\ interestRate <= JOI_MAX_RATE
  /\ duration >= JOI_MIN_DURATION /\ duration <= JOI_MAX_DURATION
  /\ purposeLen >= JOI_MIN_PURPOSE /\ purposeLen <= JOI_MAX_PURPOSE

\* POST /api/loans: validateSchema(loanCreation), createLoan, Loan.create
ctl_createLoan(user, amount, interestRate, duration, purposeLen, canCreate) ==
  /\ OnServer /\ Enter
  /\ ~loanDoc.exists
  /\ IF ~loanCreation_valid(amount, interestRate, duration, purposeLen)
     THEN /\ response' = Resp("create", "400 validation", FALSE)
          /\ UNCHANGED loanDoc
     ELSE IF ~canCreate
     THEN /\ response' = Resp("create", "403", FALSE)
          /\ UNCHANGED loanDoc
     ELSE /\ response' = Resp("create", "201", FALSE)
          /\ loanDoc' = Loan(user, amount, interestRate, duration)
  /\ UNCHANGED req

\* The answer of POST /api/loans/:id/fund before the settlement adapter is
\* called: schema, Loan.findById and the checks on the instance; "go" when
\* every check passes.
ctl_fundLoan_check(user, amount, canFund) ==
  IF amount < JOI_MIN_AMOUNT THEN "400 validation"
  ELSE IF ~loanDoc.exists THEN "404"
  ELSE IF loanDoc.status # "pending" THEN "400 status"
  ELSE IF loanDoc.borrowerId = user THEN "400 own loan"
  ELSE IF ~canFund THEN "403"
  ELSE "go"

\* POST /api/loans/:id/fund, up to the call of the settlement adapter.
ctl_fundLoan_find(s, user, amount, canFund) ==
  LET res == ctl_fundLoan_check(user, amount, canFund) IN
  /\ OnServer /\ Enter
  /\ Free(s)
  /\ IF res = "go"
     THEN /\ req' = [req EXCEPT ![s] =
                 [IdleReq EXCEPT !.op = "fund", !.pc = "settle", !.user = user,
                                 !.amount = amount, !.loan = loanDoc]]
          /\ UNCHANGED response
     ELSE /\ response' = Resp("fund", res, FALSE)
          /\ UNCHANGED req
  /\ UNCHANGED loanDoc

\* A handler that goes on to its write when the adapter has thrown.
ctl_settle_uncaught(s, ok) ==
  /\ OnServer /\ Continue
  /\ req[s].pc = "settle"
  /\ req' = [req EXCEPT ![s].pc = "write"]
  /\ UNCHANGED <<response, loanDoc>>

\* loanService.fundLoanOnBlockchain / repayLoanOnBlockchain: the adapter
\* either moves the value or throws, and the handler answers 500.
ctl_settle(s, ok) ==
  /\ OnServer /\ Continue
  /\ req[s].pc = "settle"
  /\ IF ok
     THEN /\ req' = [req EXCEPT ![s].pc = "write"]
          /\ UNCHANGED response
     ELSE /\ req' = [req EXCEPT ![s] = IdleReq]
          /\ response' = Resp(req[s].op, "500 settlement", FALSE)
  /\ UNCHANGED loanDoc

\* await loan.fundLoan(userId, amount): the write of the instance's fields.
ctl_fundLoan_write(s) ==
  /\ OnServer /\ Continue
  /\ req[s].pc = "write" /\ req[s].op = "fund"
  /\ LET after == Loan_fundLoan(req[s].loan, req[s].user, req[s].amount)
     IN loanDoc' = FirestoreUpdate(loanDoc, Loan_fundLoan_fields(after))
  /\ req' = [req EXCEPT ![s] = IdleReq]
  /\ response' = Resp("fund", "200", TRUE)

\* The answer of POST /api/loans/:id/repay before the settlement adapter is
\* called; "go" when every check passes.
ctl_repayLoan_check(user, amount) ==
  IF amount < JOI_MIN_AMOUNT THEN "400 validation"
  ELSE IF ~loanDoc.exists THEN "404"
  ELSE IF loanDoc.borrowerId # user THEN "403"
  ELSE IF loanDoc.status # "active" THEN "400 status"
  ELSE "go"

\* POST /api/loans/:id/repay, up to the call of the settlement adapter.
ctl_repayLoan_find(s, user, amount) ==
  LET res == ctl_repayLoan_check(user, amount) IN
  /\ OnServer /\ Enter
  /\ Free(s)
  /\ IF res = "go"
     THEN /\ req' = [req EXCEPT ![s] =
                 [IdleReq EXCEPT !.op = "repay", !.pc = "settle", !.user = user,
                                 !.amount = amount, !.loan = loanDoc]]
          /\ UNCHANGED response
     ELSE /\ response' = Resp("repay", res, FALSE)
          /\ UNCHANGED req
  /\ UNCHANGED loanDoc

\* await loan.repayLoan(amount): throws on an insufficient amount, else
\* update({status: 'repaid', repaidAt}).
ctl_repayLoan_write(s) ==
  /\ OnServer /\ Continue
  /\ req[s].pc = "write" /\ req[s].op = "repay"
  /\ IF Loan_insufficient(req[s].loan, req[s].amount)
     THEN /\ response' = Resp("repay", "500 Insufficient repayment amount", TRUE)
          /\ UNCHANGED loanDoc
     ELSE /\ loanDoc' = FirestoreUpdate(loanDoc, [status |-> "repaid"])
          /\ response' = Resp("repay", "200", TRUE)
  /\ req' = [req EXCEPT ![s] = IdleReq]

\* The answer of PUT and DELETE /api/loans/:id before the update is issued;
\* "go" when every check passes.
ctl_ownPending_check(user) ==
  IF ~loanDoc.exists THEN "404"
  ELSE IF loanDoc.borrowerId # user THEN "403"
  ELSE IF loanDoc.status # "pending" THEN "400 status"
  ELSE "go"

\* PUT /api/loans/:id up to loan.update(req.body).
ctl_updateLoan_find(s, user, body) ==
  LET res == ctl_ownPending_check(user) IN
  /\ OnServer /\ Enter
  /\ Free(s)
  /\ IF res = "go"
     THEN /\ req' = [req EXCEPT ![s] =
                 [IdleReq EXCEPT !.op = "update", !.pc = "write", !.user = user,
                                 !.body = body]]
          /\ UNCHANGED response
     ELSE /\ response' = Resp("update", res, FALSE)
          /\ UNCHANGED req
  /\ UNCHANGED loanDoc

\* loan.update(req.body) reaching the store.
ctl_updateLoan_write(s) ==
  /\ OnServer /\ Continue
  /\ req[s].pc = "write" /\ req[s].op = "update"
  /\ loanDoc' = FirestoreUpdate(loanDoc, req[s].body)
  /\ req' = [req EXCEPT ![s] = IdleReq]
  /\ response' = Resp("update", "200", FALSE)

\* DELETE /api/loans/:id up to loan.update({status: 'cancelled', ...}).
ctl_cancelLoan_find(s, user) ==
  LET res == ctl_ownPending_check(user) IN
  /\ OnServer /\ Enter
  /\ Free(s)
  /\ IF res = "go"
     THEN /\ req' = [req EXCEPT ![s] =
                 [IdleReq EXCEPT !.op = "cancel", !.pc = "write", !.user = user]]
          /\ UNCHANGED response
     ELSE /\ response' = Resp("cancel", res, FALSE)
          /\ UNCHANGED req
  /\ UNCHANGED loanDoc

\* loan.update({status: 'cancelled', isActive: false}) reaching the store.
ctl_cancelLoan_write(s) ==
  /\ OnServer /\ Continue
  /\ req[s].pc = "write" /\ req[s].op = "cancel"
  /\ loanDoc' = FirestoreUpdate(loanDoc, [status |-> "cancelled"])
  /\ req' = [req EXCEPT ![s] = IdleReq]
  /\ response' = Resp("cancel", "200", FALSE)

\* handleLoanFundedEvent: loanRef.get(); nothing more when the document is
\* missing.
svc_handleLoanFundedEvent_get(s, lender, amount) ==
  /\ OnServer /\ Enter
  /\ Free(s)
  /\ loanDoc.exists
  /\ loanDoc.fundedAmount + amount <= FundedCap
  /\ req' = [req EXCEPT ![s] =
       [IdleReq EXCEPT !.op = "LoanFunded", !.pc = "write", !.user = lender,
                       !.amount = amount, !.loan = loanDoc]]
  /\ UNCHANGED <<loanDoc, response>>

\* The fields handleLoanFundedEvent passes to loanRef.update.
svc_handleLoanFundedEvent_fields(loan, lender, amount) ==
  [lenders |-> IF lender \in Range(loan.lenders) THEN loan.lenders
               ELSE Append(loan.lenders, lender),
   lenderContributions |-> [loan.lenderContributions EXCEPT ![lender] = @ + amount],
   fundedAmount |-> loan.fundedAmount + amount]

\* handleLoanFundedEvent: loanRef.update({lenders, lenderContributions, fundedAmount})
svc_handleLoanFundedEvent_update(s) ==
  /\ OnServer /\ Continue
  /\ req[s].pc = "write" /\ req[s].op = "LoanFunded"
  /\ loanDoc' = FirestoreUpdate(loanDoc,
       svc_handleLoanFundedEvent_fields(req[s].loan, req[s].user, req[s].amount))
  /\ req' = [req EXCEPT ![s] = IdleReq]
  /\ UNCHANGED response

\* A step of a loan handler that adds to the contract's LoanFunded log or
\* takes an event from it.
OnServerLog ==
  /\ ledger = "server"
  /\ UNCHANGED <<ledger, chainVars, numDoc, poolCounter, pools, poolDoc, repVars, db>>

\* loanService.fundLoanOnBlockchain together with the LoanFunded event the
\* contract emits when the call succeeds: events is the log of those events,
\* each one marked once the listener has taken it.
ctl_settle_emit(s, ok) ==
  /\ OnServerLog /\ Continue
  /\ req[s].pc = "settle" /\ req[s].op = "fund"
  /\ IF ok
     THEN /\ req' = [req EXCEPT ![s].pc = "write"]
          /\ events' = Append(events, [lender |-> req[s].user,
                                       amount |-> req[s].amount, handled |-> FALSE])
          /\ UNCHANGED response
     ELSE /\ req' = [req EXCEPT ![s] = IdleReq]
          /\ response' = Resp(req[s].op, "500 settlement", FALSE)
          /\ UNCHANGED events
  /\ UNCHANGED loanDoc

\* handleLoanFundedEvent: loanRef.get() for the oldest event of the log not
\* taken yet; nothing more when the document is missing.
svc_handleLoanFundedEvent_next(s) ==
  /\ OnServerLog /\ Continue
  /\ Free(s)
  /\ \E i \in 1 .. Len(events) :
        /\ ~events[i].handled
        /\ \A j \in 1 .. (i - 1) : events[j].handled
        /\ events' = [events EXCEPT ![i].handled = TRUE]
        /\ IF loanDoc.exists
           THEN req' = [req EXCEPT ![s] =
                  [IdleReq EXCEPT !.op = "LoanFunded", !.pc = "write",
                                  !.user = events[i].lender,
                                  !.amount = events[i].amount, !.loan = loanDoc]]
           ELSE UNCHANGED req
  /\ UNCHANGED <<loanDoc, response>>

\* handleLoanRepaidEvent: one update; it throws when the document is missing.
svc_handleLoanRepaidEvent ==
  /\ OnServer /\ Enter
  /\ loanDoc.exists
  /\ loanDoc' = FirestoreUpdate(loanDoc, [status |-> "repaid"])
  /\ UNCHANGED <<req, response>>

\* handleLoanDefaultedEvent: one update of status and defaultedAt; it throws
\* when the document is missing.
svc_handleLoanDefaultedEvent ==
  /\ OnServer /\ Enter
  /\ loanDoc.exists
  /\ loanDoc' = FirestoreUpdate(loanDoc, [status |-> "defaulted",
                                          defaultedAt |-> <<now>>])
  /\ UNCHANGED <<req, response>>

\* Loan.defaultLoan(): update({status: 'defaulted', defaultedAt})
Loan_defaultLoan ==
  /\ OnServer /\ Enter
  /\ loanDoc.exists
  /\ loanDoc' = FirestoreUpdate(loanDoc, [status |-> "defaulted",
                                          defaultedAt |-> <<now>>])
  /\ UNCHANGED <<req, response>>

\* Date.now() of the server moves on to the next instant (now is the clock
\* of whichever ledger the behaviour drives).
Date_now_Tick ==
  /\ ledger = "server"
  /\ \E t \in TimePoints :
        /\ t > now
        /\ \A u \in TimePoints : u > now => t <= u
        /\ now' = t
  /\ UNCHANGED <<ledger, loanCounter, loans, lenderShare, excess, balance, lastTx,
                 loanDoc, req, response, served, numDoc, poolVars, repVars, db>>

\* -------------------------------------------- amounts as JavaScript Numbers
\* Joi.number() lets decimal amounts through from 0.01, and Loan.fundLoan and
\* handleLoanFundedEvent add them with the Number +, which rounds to binary64.
\* A positive Number is (hi * 2^27 + lo) * 2^exp with a 53-bit significand,
\* 2^25 <= hi < 2^26 and 0 <= lo < 2^27; zero has hi = lo = 0.  (Amounts stay
\* far from the largest and the smallest binary64 values.)
Number_limb == 2 ^ 27
Number_hiMin == 2 ^ 25
Number_hiLimit == 2 ^ 26
\* Beyond this many places a shifted significand is all below the guard bit.
Number_maxShift == 55

Number_0 == [exp |-> 0, hi |-> 0, lo |-> 0]
\* The binary64 values of the decimal literals of the request bodies.
Number_0_01 == [exp |-> -59, hi |-> 42949672, lo |-> 128849019]
Number_0_1 == [exp |-> -56, hi |-> 53687091, lo |-> 26843546]
Number_0_2 == [exp |-> -55, hi |-> 53687091, lo |-> 26843546]
Number_0_3 == [exp |-> -54, hi |-> 40265318, lo |-> 53687091]
Number_0_6 == [exp |-> -53, hi |-> 40265318, lo |-> 53687091]
Number_1 == [exp |-> -52, hi |-> 33554432, lo |-> 0]
Number_100 == [exp |-> -46, hi |-> 52428800, lo |-> 0]

\* Inputs offered to the server as Numbers.
NumLoanAmounts == {Number_0_6, Number_1}
NumFundAmounts == {Number_0, Number_0_1, Number_0_2, Number_0_3}

\* A significand moved one place to the right: g is the bit that has just
\* left it, s tells whether any bit that left it earlier was set.
Number_shift1(x) ==
  [hi |-> x.hi \div 2,
   lo |-> (x.hi % 2) * (Number_limb \div 2) + x.lo \div 2,
   g |-> x.lo % 2,
   s |-> IF x.g = 1 \/ x.s = 1 THEN 1 ELSE 0]

RECURSIVE Number_shift(_, _)
Number_shift(x, n) ==
  IF n = 0 THEN x ELSE Number_shift(Number_shift1(x), n - 1)

\* a + b on Numbers >= 0: the exact sum rounded to the nearest binary64,
\* ties to the even significand.
Number_plus(a, b) ==
  IF a = Number_0 THEN b
  ELSE IF b = Number_0 THEN a
  ELSE
    LET big == IF a.exp >= b.exp THEN a ELSE b
        small == IF a.exp >= b.exp THEN b ELSE a
        d == big.exp - small.exp
        sh == Number_shift([hi |-> small.hi, lo |-> small.lo, g |-> 0, s |-> 0],
                           IF d > Number_maxShift THEN Number_maxShift ELSE d)
        lo0 == big.lo + sh.lo
        hi0 == big.hi + sh.hi + lo0 \div Number_limb
        sum == [hi |-> hi0, lo |-> lo0 % Number_limb, g |-> sh.g, s |-> sh.s]
        carry == hi0 >= Number_hiLimit
        norm == IF carry THEN Number_shift1(sum) ELSE sum
        e == IF carry THEN big.exp + 1 ELSE big.exp
        up == norm.g = 1 /\ (norm.s = 1 \/ norm.lo % 2 = 1)
        lo1 == norm.lo + (IF up THEN 1 ELSE 0)
        hi1 == norm.hi + lo1 \div Number_limb
    IN IF hi1 >= Number_hiLimit
       THEN [exp |-> e + 1, hi |-> Number_hiMin, lo |-> 0]
       ELSE [exp |-> e, hi |-> hi1, lo |-> lo1 % Number_limb]

\* a < b on Numbers >= 0
Number_lt(a, b) ==
  IF b = Number_0 THEN FALSE
  ELSE IF a = Number_0 THEN TRUE
  ELSE \/ a.exp < b.exp
       \/ a.exp = b.exp /\ a.hi < b.hi
       \/ a.exp = b.exp /\ a.hi = b.hi /\ a.lo < b.lo

NoNumContribution == [u \in Users |-> Number_0]

\* new Loan(data) followed by toFirestore(), amounts as Numbers.
Num_Loan(borrowerId, amount) ==
  [exists |-> TRUE, borrowerId |-> borrowerId, amount |-> amount,
   fundedAmount |-> Number_0, status |-> "pending", lenders |-> <<>>,
   lenderContributions |-> NoNumContribution]

\* Loan.fundLoan(lenderId, amount) on Numbers: the fields it writes.
Num_Loan_fundLoan(loan, lenderId, amount) ==
  LET funded == Number_plus(loan.fundedAmount, amount)
  IN [loan EXCEPT
        !.lenders = IF lenderId \in Range(@) THEN @ ELSE Append(@, lenderId),
        !.lenderContributions[lenderId] = Number_plus(@, amount),
        !.fundedAmount = funded,
        !.status = IF ~Number_lt(funded, loan.amount) THEN "active" ELSE @]

\* The fields handleLoanFundedEvent writes, on Numbers.
Num_handleLoanFundedEvent_fields(loan, lender, amount) ==
  [lenders |-> IF lender \in Range(loan.lenders) THEN loan.lenders
               ELSE Append(loan.lenders, lender),
   lenderContributions |->
     [loan.lenderContributions EXCEPT ![lender] = Number_plus(@, amount)],
   fundedAmount |-> Number_plus(loan.fundedAmount, amount)]

NumInit == numDoc = NoDoc

\* POST /api/loans with a decimal amount, run to its end.
num_createLoan(user, amount, canCreate) ==
  /\ OnNumber /\ Enter
  /\ ~numDoc.exists
  /\ IF Number_lt(amount, Number_0_01) \/ Number_lt(Number_100, amount) \/ ~canCreate
     THEN UNCHANGED numDoc
     ELSE numDoc' = Num_Loan(user, amount)

\* POST /api/loans/:id/fund with a decimal amount, run to its end with no
\* other handler in between: schema, checks, settlement, Loan.fundLoan.
num_fundLoan(user, amount, canFund, settled) ==
  /\ OnNumber /\ Enter
  /\ IF \/ Number_lt(amount, Number_0_01)
        \/ ~numDoc.exists
        \/ numDoc.status # "pending"
        \/ numDoc.borrowerId = user
        \/ ~canFund
        \/ ~settled
     THEN UNCHANGED numDoc
     ELSE numDoc' = FirestoreUpdate(numDoc,
            Loan_fundLoan_fields(Num_Loan_fundLoan(numDoc, user, amount)))

\* handleLoanFundedEvent with a decimal amount, run to its end.
num_handleLoanFundedEvent(lender, amount) ==
  /\ OnNumber /\ Enter
  /\ numDoc.exists
  /\ numDoc' = FirestoreUpdate(numDoc,
       Num_handleLoanFundedEvent_fields(numDoc, lender, amount))

NumFundLoanNext ==
  \/ \E u \in Borrowers, a \in NumLoanAmounts, ok \in BOOLEAN :
        num_createLoan(u, a, ok)
  \/ \E u \in Users, a \in NumFundAmounts, ok \in BOOLEAN, paid \in BOOLEAN :
        num_fundLoan(u, a, ok, paid)

NumFundingNext ==
  \/ NumFundLoanNext
  \/ \E u \in EventLenders, a \in NumFundAmounts \ {Number_0} :
        num_handleLoanFundedEvent(u, a)

\* ------------------------------------------------------ LenderPool contract
\* LenderPool.sol constants, amounts scaled as those of the loan manager
\* (1 ether is 10000).
MIN_POOL_AMOUNT == 10000
MAX_POOL_AMOUNT == 10000000
POOL_MIN_INTEREST_RATE == 3
POOL_MAX_INTEREST_RATE == 25

\* Inputs offered to the LenderPool contract.
PoolCreators == {"ann"}
PoolTargets == {5000, 10000}
PoolRates == {3, 30}
PoolLenders == {"bob", "cy"}
PoolValues == {0, 4000, 6000}
PoolRemovals == {4000, 7000}
PoolYields == {0, 50}
\* Cap on the yield one pool distributes in a behaviour.
YieldCap == 100

PoolIds == 0 .. (MaxPools - 1)

\* A storage slot of _pools before createPool has written it.
EmptyPool ==
  [creator |-> "none", targetAmount |-> 0, currentAmount |-> 0,
   interestRate |-> 0, active |-> FALSE, lenders |-> <<>>,
   lenderShares |-> NoContribution, lenderYield |-> NoContribution]

\* modifier onlyValidPool
onlyValidPool(poolId) == poolId < poolCounter

\* modifier onlyPoolCreator
onlyPoolCreator(poolId, sender) == pools[poolId].creator = sender

\* modifier onlyActivePool
onlyActivePool(poolId) == pools[poolId].active

\* The first failing require of createPool, "ok" when none fails.
createPool_check(nameLen, targetAmount, interestRate) ==
  IF ~(nameLen > 0) THEN "Pool name cannot be empty"
  ELSE IF ~(targetAmount >= MIN_POOL_AMOUNT /\ targetAmount <= MAX_POOL_AMOUNT)
    THEN "Invalid target amount"
  ELSE IF ~(interestRate >= POOL_MIN_INTEREST_RATE
              /\ interestRate <= POOL_MAX_INTEREST_RATE)
    THEN "Invalid interest rate"
  ELSE "ok"

\* createPool(name, description, targetAmount, interestRate)
createPool(sender, nameLen, targetAmount, interestRate) ==
  LET res == createPool_check(nameLen, targetAmount, interestRate) IN
  /\ poolCounter < MaxPools
  /\ OnPool
  /\ lastTx' = Tx("createPool", res)
  /\ IF res = "ok"
     THEN /\ pools' = [pools EXCEPT ![poolCounter] =
                 [creator |-> sender, targetAmount |-> targetAmount,
                  currentAmount |-> 0, interestRate |-> interestRate,
                  active |-> TRUE, lenders |-> <<>>,
                  lenderShares |-> NoContribution,
                  lenderYield |-> NoContribution]]
          /\ poolCounter' = poolCounter + 1
     ELSE UNCHANGED <<pools, poolCounter>>
  /\ UNCHANGED balance

\* The first failing modifier or require of addLiquidity, "ok" when none fails.
addLiquidity_check_anyPool(poolId, value) ==
  IF ~onlyValidPool(poolId) THEN "Pool does not exist"
  ELSE IF ~(value > 0) THEN "Amount must be greater than 0"
  ELSE IF ~(pools[poolId].currentAmount + value <= pools[poolId].targetAmount)
    THEN "Exceeds pool target amount"
  ELSE "ok"

addLiquidity_check(poolId, value) ==
  IF ~onlyValidPool(poolId) THEN "Pool does not exist"
  ELSE IF ~onlyActivePool(poolId) THEN "Pool is not active"
  ELSE IF ~(value > 0) THEN "Amount must be greater than 0"
  ELSE IF ~(pools[poolId].currentAmount + value <= pools[poolId].targetAmount)
    THEN "Exceeds pool target amount"
  ELSE "ok"

\* addLiquidity(poolId) payable
addLiquidity(sender, poolId, value) ==
  LET pool == pools[poolId]
      res == addLiquidity_check(poolId, value)
  IN
  /\ OnPool
  /\ lastTx' = Tx("addLiquidity", res)
  /\ IF res = "ok"
     THEN /\ pools' = [pools EXCEPT ![poolId] =
                 [pool EXCEPT
                    !.currentAmount = @ + value,
                    !.lenderShares[sender] = @ + value,
                    !.lenders = IF sender \in Range(@) THEN @ ELSE Append(@, sender)]]
          /\ balance' = balance + value
     ELSE UNCHANGED <<pools, balance>>
  /\ UNCHANGED poolCounter

\* The first failing modifier, require or transfer of removeLiquidity, "ok"
\* when none fails (transfer reverts when the contract holds less than the
\* amount).
removeLiquidity_check(sender, poolId, amount) ==
  IF ~onlyValidPool(poolId) THEN "Pool does not exist"
  ELSE IF ~(pools[poolId].lenderShares[sender] >= amount) THEN "Insufficient shares"
  ELSE IF ~(balance >= amount) THEN "transfer failed"
  ELSE "ok"

\* removeLiquidity(poolId, amount)
removeLiquidity(sender, poolId, amount) ==
  LET pool == pools[poolId]
      res == removeLiquidity_check(sender, poolId, amount)
  IN
  /\ OnPool
  /\ lastTx' = Tx("removeLiquidity", res)
  /\ IF res = "ok"
     THEN /\ pools' = [pools EXCEPT ![poolId] =
                 [pool EXCEPT !.currentAmount = @ - amount,
                              !.lenderShares[sender] = @ - amount]]
          /\ balance' = balance - amount
     ELSE UNCHANGED <<pools, balance>>
  /\ UNCHANGED poolCounter

LenderYieldOf_roundedUp(pool, lender, totalYield) ==
  (totalYield * pool.lenderShares[lender] + pool.currentAmount - 1)
    \div pool.currentAmount

\* The yield distributeYield transfers to one lender.
LenderYieldOf(pool, lender, totalYield) ==
  (totalYield * pool.lenderShares[lender]) \div pool.currentAmount

\* The yields distributeYield transfers, lender by lender.
distributeYield_paid(pool, totalYield) ==
  [u \in Users |->
     IF u \in Range(pool.lenders) THEN LenderYieldOf(pool, u, totalYield) ELSE 0]

distributeYield_check_anyCaller(sender, poolId, totalYield) ==
  IF ~onlyValidPool(poolId) THEN "Pool does not exist"
  ELSE IF ~(totalYield > 0) THEN "Yield must be greater than 0"
  ELSE IF ~(pools[poolId].currentAmount > 0) THEN "Pool has no liquidity"
  ELSE IF ~(balance >= SumOver(distributeYield_paid(pools[poolId], totalYield), Users))
    THEN "transfer failed"
  ELSE "ok"

\* The first failing modifier, require or transfer of distributeYield, "ok"
\* when none fails.
distributeYield_check(sender, poolId, totalYield) ==
  IF ~onlyValidPool(poolId) THEN "Pool does not exist"
  ELSE IF ~onlyPoolCreator(poolId, sender)
    THEN "Only pool creator can perform this action"
  ELSE IF ~(totalYield > 0) THEN "Yield must be greater than 0"
  ELSE IF ~(pools[poolId].currentAmount > 0) THEN "Pool has no liquidity"
  ELSE IF ~(balance >= SumOver(distributeYield_paid(pools[poolId], totalYield), Users))
    THEN "transfer failed"
  ELSE "ok"

\* distributeYield(poolId, totalYield)
distributeYield(sender, poolId, totalYield) ==
  LET pool == pools[poolId]
      res == distributeYield_check(sender, poolId, totalYield)
  IN
  /\ OnPool
  /\ SumOver(pool.lenderYield, Users) + totalYield <= YieldCap
  /\ lastTx' = Tx("distributeYield", res)
  /\ IF res = "ok"
     THEN LET paid == distributeYield_paid(pool, totalYield)
          IN /\ pools' = [pools EXCEPT ![poolId].lenderYield =
                            [u \in Users |-> pool.lenderYield[u] + paid[u]]]
             /\ balance' = balance - SumOver(paid, Users)
     ELSE UNCHANGED <<pools, balance>>
  /\ UNCHANGED poolCounter

\* The first failing modifier of deactivatePool, "ok" when none fails.
deactivatePool_check(sender, poolId) ==
  IF ~onlyValidPool(poolId) THEN "Pool does not exist"
  ELSE IF ~onlyPoolCreator(poolId, sender)
    THEN "Only pool creator can perform this action"
  ELSE "ok"

\* deactivatePool(poolId)
deactivatePool(sender, poolId) ==
  LET res == deactivatePool_check(sender, poolId) IN
  /\ OnPool
  /\ lastTx' = Tx("deactivatePool", res)
  /\ IF res = "ok"
     THEN pools' = [pools EXCEPT ![poolId].active = FALSE]
     ELSE UNCHANGED pools
  /\ UNCHANGED <<poolCounter, balance>>

\* createPool, addLiquidity, removeLiquidity and deactivatePool.
PoolLiquidityNext ==
  \/ \E s \in PoolCreators, n \in {0, 1}, t \in PoolTargets, r \in PoolRates :
        createPool(s, n, t, r)
  \/ \E s \in PoolLenders, p \in PoolIds, v \in PoolValues : addLiquidity(s, p, v)
  \/ \E s \in PoolLenders, p \in PoolIds, a \in PoolRemovals :
        removeLiquidity(s, p, a)
  \/ \E s \in Users, p \in PoolIds : deactivatePool(s, p)

PoolNext ==
  \/ PoolLiquidityNext
  \/ \E s \in Users, p \in PoolIds, y \in PoolYields : distributeYield(s, p, y)

\* createPool, addLiquidity, removeLiquidity and distributeYield.
PoolYieldNext ==
  \/ \E s \in PoolCreators, n \in {0, 1}, t \in PoolTargets, r \in PoolRates :
        createPool(s, n, t, r)
  \/ \E s \in PoolLenders, p \in PoolIds, v \in PoolValues : addLiquidity(s, p, v)
  \/ \E s \in PoolLenders, p \in PoolIds, a \in PoolRemovals :
        removeLiquidity(s, p, a)
  \/ \E s \in Users, p \in PoolIds, y \in PoolYields : distributeYield(s, p, y)

PoolInit ==
  /\ poolCounter = 0
  /\ pools = [i \in PoolIds |-> EmptyPool]
  /\ poolDoc = NoDoc
  /\ events = <<>>

\* ------------------------------------------------- pools of the server
\* The pool controller and the pool service's event handlers are in the
\* sources; the Pool model they call (models/Pool) is not, and its methods
\* follow the Pool Engine of the specification, each one an atomic
\* conditional update of the stored document.  Amounts in units of 0.01.
JOI_MIN_TARGET == 100
JOI_MAX_TARGET == 100000
JOI_POOL_MIN_RATE == 3
JOI_POOL_MAX_RATE == 25

\* Inputs offered to the server's pool routes.
SrvPoolTargets == {1000, 200000}
SrvPoolRates == {3}
SrvPoolAmounts == {0, 600}
SrvPoolWithdrawals == {600, 700}
SrvPoolYields == {0, 100}

\* new Pool(data): a pool is active when created and holds nothing.
Pool(creatorId, targetAmount, interestRate) ==
  [exists |-> TRUE, creatorId |-> creatorId, targetAmount |-> targetAmount,
   currentAmount |-> 0, interestRate |-> interestRate, isActive |-> TRUE,
   contributors |-> <<>>, contributorAmounts |-> NoContribution,
   contributorYield |-> NoContribution]

\* validateSchema(schemas.poolCreation) on the amounts of the body
poolCreation_valid(targetAmount, interestRate) ==
  /\ targetAmount >= JOI_MIN_TARGET /\ targetAmount <= JOI_MAX_TARGET
  /\ interestRate >= JOI_POOL_MIN_RATE /\ interestRate <= JOI_POOL_MAX_RATE

\* POST /api/pools: validateSchema(poolCreation), createPool, Pool.create
ctl_createPool(user, targetAmount, interestRate, verified) ==
  /\ OnPoolServer /\ Enter
  /\ ~poolDoc.exists
  /\ IF ~poolCreation_valid(targetAmount, interestRate)
     THEN /\ response' = Resp("createPool", "400 validation", FALSE)
          /\ UNCHANGED poolDoc
     ELSE IF ~verified
     THEN /\ response' = Resp("createPool", "403", FALSE)
          /\ UNCHANGED poolDoc
     ELSE /\ response' = Resp("createPool", "201", FALSE)
          /\ poolDoc' = Pool(user, targetAmount, interestRate)
  /\ UNCHANGED <<req, events>>

\* The answer of POST /api/pools/:id/contribute before the settlement
\* adapter is called; "go" when every check passes.
ctl_contributeToPool_check(user, amount, canFund) ==
  IF amount < JOI_MIN_AMOUNT THEN "400 validation"
  ELSE IF ~poolDoc.exists THEN "404"
  ELSE IF ~poolDoc.isActive THEN "400 not active"
  ELSE IF poolDoc.creatorId = user THEN "400 own pool"
  ELSE IF ~canFund THEN "403"
  ELSE "go"

\* POST /api/pools/:id/contribute, up to the call of the settlement adapter.
ctl_contributeToPool_find(s, user, amount, canFund) ==
  LET res == ctl_contributeToPool_check(user, amount, canFund) IN
  /\ OnPoolServer /\ Enter
  /\ Free(s)
  /\ IF res = "go"
     THEN /\ req' = [req EXCEPT ![s] =
                 [IdleReq EXCEPT !.op = "contribute", !.pc = "settle",
                                 !.user = user, !.amount = amount, !.loan = poolDoc]]
          /\ UNCHANGED response
     ELSE /\ response' = Resp("contribute", res, FALSE)
          /\ UNCHANGED req
  /\ UNCHANGED <<poolDoc, events>>

\* The event the LenderPool contract emits when the adapter's call succeeds
\* (YieldDistributed touches no amount of the document and is left out).
EmittedBy(r) ==
  IF r.op = "contribute"
    THEN <<[type |-> "LiquidityAdded", lender |-> r.user, amount |-> r.amount]>>
  ELSE IF r.op = "withdraw"
    THEN <<[type |-> "LiquidityRemoved", lender |-> r.user, amount |-> r.amount]>>
  ELSE <<>>

\* poolService.contributeToPoolOnBlockchain / withdrawFromPoolOnBlockchain /
\* distributeYieldOnBlockchain: the adapter either moves the value, and the
\* contract emits its event, or throws, and the handler answers 500.
pool_settle(s, ok) ==
  /\ OnPoolServer /\ Continue
  /\ req[s].pc = "settle"
  /\ IF ok
     THEN /\ req' = [req EXCEPT ![s].pc = "write"]
          /\ events' = events \o EmittedBy(req[s])
          /\ UNCHANGED response
     ELSE /\ req' = [req EXCEPT ![s] = IdleReq]
          /\ response' = Resp(req[s].op, "500 settlement", FALSE)
          /\ UNCHANGED events
  /\ UNCHANGED poolDoc

\* Pool.addContribution(userId, amount): the error AddLiquidity fails with,
\* "ok" when it applies.
Pool_addContribution_check(pool, amount) ==
  IF ~pool.isActive THEN "PoolInactive"
  ELSE IF ~(amount > 0) THEN "NonPositiveAmount"
  ELSE IF pool.currentAmount + amount > pool.targetAmount THEN "ExceedsTarget"
  ELSE "ok"

\* Pool.addContribution(userId, amount): the document after the upsert.
Pool_addContribution(pool, userId, amount) ==
  [pool EXCEPT
     !.contributors = IF userId \in Range(@) THEN @ ELSE Append(@, userId),
     !.contributorAmounts[userId] = @ + amount,
     !.currentAmount = @ + amount]

\* await pool.addContribution(userId, amount)
ctl_contributeToPool_write(s) ==
  LET res == Pool_addContribution_check(poolDoc, req[s].amount) IN
  /\ OnPoolServer /\ Continue
  /\ req[s].pc = "write" /\ req[s].op = "contribute"
  /\ IF res = "ok"
     THEN /\ poolDoc' = Pool_addContribution(poolDoc, req[s].user, req[s].amount)
          /\ response' = Resp("contribute", "200", TRUE)
     ELSE /\ response' = Resp("contribute", "500 " \o res, TRUE)
          /\ UNCHANGED poolDoc
  /\ req' = [req EXCEPT ![s] = IdleReq]
  /\ UNCHANGED events

\* pool.getUserContribution(userId)
Pool_getUserContribution(pool, userId) == pool.contributorAmounts[userId]

\* The answer of POST /api/pools/:id/withdraw before the settlement adapter
\* is called; "go" when every check passes (the route validates nothing).
ctl_withdrawFromPool_check(user, amount) ==
  IF ~poolDoc.exists THEN "404"
  ELSE IF Pool_getUserContribution(poolDoc, user) = 0
            \/ Pool_getUserContribution(poolDoc, user) < amount
    THEN "400 Insufficient contribution"
  ELSE "go"

\* POST /api/pools/:id/withdraw, up to the call of the settlement adapter.
ctl_withdrawFromPool_find(s, user, amount) ==
  LET res == ctl_withdrawFromPool_check(user, amount) IN
  /\ OnPoolServer /\ Enter
  /\ Free(s)
  /\ IF res = "go"
     THEN /\ req' = [req EXCEPT ![s] =
                 [IdleReq EXCEPT !.op = "withdraw", !.pc = "settle",
                                 !.user = user, !.amount = amount, !.loan = poolDoc]]
          /\ UNCHANGED response
     ELSE /\ response' = Resp("withdraw", res, FALSE)
          /\ UNCHANGED req
  /\ UNCHANGED <<poolDoc, events>>

\* Pool.removeContribution(userId, amount): the document after the debit.
Pool_removeContribution(pool, userId, amount) ==
  [pool EXCEPT !.contributorAmounts[userId] = @ - amount,
               !.currentAmount = @ - amount]

\* await pool.removeContribution(userId, amount): RemoveLiquidity fails with
\* InsufficientShare when the amount exceeds the recorded share.
ctl_withdrawFromPool_write(s) ==
  /\ OnPoolServer /\ Continue
  /\ req[s].pc = "write" /\ req[s].op = "withdraw"
  /\ IF req[s].amount > Pool_getUserContribution(poolDoc, req[s].user)
     THEN /\ response' = Resp("withdraw", "500 InsufficientShare", TRUE)
          /\ UNCHANGED poolDoc
     ELSE /\ poolDoc' = Pool_removeContribution(poolDoc, req[s].user, req[s].amount)
          /\ response' = Resp("withdraw", "200", TRUE)
  /\ req' = [req EXCEPT ![s] = IdleReq]
  /\ UNCHANGED events

\* The answer of the creator-only routes before they act.
ctl_poolCreator_check(user) ==
  IF ~poolDoc.exists THEN "404"
  ELSE IF poolDoc.creatorId # user THEN "403"
  ELSE "go"

\* POST /api/pools/:id/activate and /deactivate: findById, the creator check
\* and pool.update({ isActive }).
ctl_setActive(op, user, flag) ==
  LET res == ctl_poolCreator_check(user) IN
  /\ OnPoolServer /\ Enter
  /\ IF res = "go"
     THEN /\ poolDoc' = FirestoreUpdate(poolDoc, [isActive |-> flag])
          /\ response' = Resp(op, "200", FALSE)
     ELSE /\ response' = Resp(op, res, FALSE)
          /\ UNCHANGED poolDoc
  /\ UNCHANGED <<req, events>>

ctl_activatePool(user) == ctl_setActive("activate", user, TRUE)

ctl_deactivatePool(user) == ctl_setActive("deactivate", user, FALSE)

\* POST /api/pools/:id/distribute-yield, up to the call of the settlement
\* adapter (the route validates nothing).
ctl_distributeYield_find(s, user, totalYield) ==
  LET res == ctl_poolCreator_check(user) IN
  /\ OnPoolServer /\ Enter
  /\ Free(s)
  /\ IF res = "go"
     THEN /\ req' = [req EXCEPT ![s] =
                 [IdleReq EXCEPT !.op = "yield", !.pc = "settle", !.user = user,
                                 !.amount = totalYield, !.loan = poolDoc]]
          /\ UNCHANGED response
     ELSE /\ response' = Resp("yield", res, FALSE)
          /\ UNCHANGED req
  /\ UNCHANGED <<poolDoc, events>>

\* Pool.distributeYield(totalYield): the error DistributeYield fails with,
\* "ok" when it applies.
Pool_distributeYield_check(pool, totalYield) ==
  IF ~(totalYield > 0) THEN "NoYield"
  ELSE IF pool.currentAmount = 0 THEN "EmptyPool"
  ELSE "ok"

\* Pool.distributeYield(totalYield): floor(totalYield * share / currentAmount)
\* is added to the yield total of each contributor.
Pool_distributeYield(pool, totalYield) ==
  [pool EXCEPT !.contributorYield =
     [u \in Users |->
        IF u \in Range(pool.contributors)
          THEN @[u] + (totalYield * pool.contributorAmounts[u]) \div pool.currentAmount
          ELSE @[u]]]

\* await pool.distributeYield(totalYield)
ctl_distributeYield_write(s) ==
  LET res == Pool_distributeYield_check(poolDoc, req[s].amount) IN
  /\ OnPoolServer /\ Continue
  /\ req[s].pc = "write" /\ req[s].op = "yield"
  /\ IF res = "ok"
     THEN /\ poolDoc' = Pool_distributeYield(poolDoc, req[s].amount)
          /\ response' = Resp("yield", "200", TRUE)
     ELSE /\ response' = Resp("yield", "500 " \o res, TRUE)
          /\ UNCHANGED poolDoc
  /\ req' = [req EXCEPT ![s] = IdleReq]
  /\ UNCHANGED events

\* handleLiquidityAddedEvent / handleLiquidityRemovedEvent: poolRef.get() for
\* the oldest event not yet handled; nothing more when the document is
\* missing.
poolsvc_handleEvent_read(s) ==
  /\ OnPoolServer
  /\ Free(s)
  /\ events # <<>>
  /\ events' = Tail(events)
  /\ IF poolDoc.exists
     THEN req' = [req EXCEPT ![s] =
            [IdleReq EXCEPT !.op = Head(events).type, !.pc = "write",
                            !.user = Head(events).lender,
                            !.amount = Head(events).amount, !.loan = poolDoc]]
     ELSE UNCHANGED req
  /\ UNCHANGED <<poolDoc, response>>

\* The handling of an event counted among the requests served.
poolsvc_handleEvent_get(s) == Enter /\ poolsvc_handleEvent_read(s)

\* The handling of an event, bounded by the queue alone.
poolsvc_handleEvent_queued(s) == Continue /\ poolsvc_handleEvent_read(s)

\* The fields handleLiquidityAddedEvent passes to poolRef.update.
poolsvc_handleLiquidityAddedEvent_fields(pool, lender, amount) ==
  [contributors |-> IF lender \in Range(pool.contributors) THEN pool.contributors
                    ELSE Append(pool.contributors, lender),
   contributorAmounts |-> [pool.contributorAmounts EXCEPT ![lender] = @ + amount],
   currentAmount |-> pool.currentAmount + amount]

\* Math.max(0, x)
Math_max0(x) == IF x > 0 THEN x ELSE 0

\* The fields handleLiquidityRemovedEvent passes to poolRef.update.
poolsvc_handleLiquidityRemovedEvent_fields(pool, lender, amount) ==
  [contributorAmounts |->
     [pool.contributorAmounts EXCEPT ![lender] = Math_max0(@ - amount)],
   currentAmount |-> Math_max0(pool.currentAmount - amount)]

\* handleLiquidityAddedEvent: poolRef.update({contributors,
\* contributorAmounts, currentAmount})
poolsvc_handleLiquidityAddedEvent_update(s) ==
  /\ OnPoolServer /\ Continue
  /\ req[s].pc = "write" /\ req[s].op = "LiquidityAdded"
  /\ poolDoc' = FirestoreUpdate(poolDoc,
       poolsvc_handleLiquidityAddedEvent_fields(req[s].loan, req[s].user,
                                                req[s].amount))
  /\ req' = [req EXCEPT ![s] = IdleReq]
  /\ UNCHANGED <<response, events>>

\* handleLiquidityRemovedEvent: poolRef.update({contributorAmounts,
\* currentAmount})
poolsvc_handleLiquidityRemovedEvent_update(s) ==
  /\ OnPoolServer /\ Continue
  /\ req[s].pc = "write" /\ req[s].op = "LiquidityRemoved"
  /\ poolDoc' = FirestoreUpdate(poolDoc,
       poolsvc_handleLiquidityRemovedEvent_fields(req[s].loan, req[s].user,
                                                  req[s].amount))
  /\ req' = [req EXCEPT ![s] = IdleReq]
  /\ UNCHANGED <<response, events>>

\* The pool requests that move liquidity, and the liquidity events.
SrvPoolLiquidityNext ==
  \/ \E u \in PoolCreators, t \in SrvPoolTargets, r \in SrvPoolRates,
        ok \in BOOLEAN : ctl_createPool(u, t, r, ok)
  \/ \E s \in Slots, u \in Users, a \in SrvPoolAmounts, ok \in BOOLEAN :
        ctl_contributeToPool_find(s, u, a, ok)
  \/ \E s \in Slots, ok \in BOOLEAN : pool_settle(s, ok)
  \/ \E s \in Slots : ctl_contributeToPool_write(s)
  \/ \E s \in Slots, u \in Users, a \in SrvPoolWithdrawals :
        ctl_withdrawFromPool_find(s, u, a)
  \/ \E s \in Slots : ctl_withdrawFromPool_write(s)
  \/ \E s \in Slots : poolsvc_handleEvent_get(s)
  \/ \E s \in Slots : poolsvc_handleLiquidityAddedEvent_update(s)
  \/ \E s \in Slots : poolsvc_handleLiquidityRemovedEvent_update(s)

\* The same, where every event emitted is handled whatever the number of
\* requests served.
SrvPoolSharesNext ==
  \/ \E u \in PoolCreators, t \in SrvPoolTargets, r \in SrvPoolRates,
        ok \in BOOLEAN : ctl_createPool(u, t, r, ok)
  \/ \E s \in Slots, u \in Users, a \in SrvPoolAmounts, ok \in BOOLEAN :
        ctl_contributeToPool_find(s, u, a, ok)
  \/ \E s \in Slots, ok \in BOOLEAN : pool_settle(s, ok)
  \/ \E s \in Slots : ctl_contributeToPool_write(s)
  \/ \E s \in Slots, u \in Users, a \in SrvPoolWithdrawals :
        ctl_withdrawFromPool_find(s, u, a)
  \/ \E s \in Slots : ctl_withdrawFromPool_write(s)
  \/ \E s \in Slots : poolsvc_handleEvent_queued(s)
  \/ \E s \in Slots : poolsvc_handleLiquidityAddedEvent_update(s)
  \/ \E s \in Slots : poolsvc_handleLiquidityRemovedEvent_update(s)

\* The pool requests that move liquidity and those that switch a pool on
\* and off.
SrvPoolLifeNext ==
  \/ SrvPoolLiquidityNext
  \/ \E u \in Users : ctl_activatePool(u)
  \/ \E u \in Users : ctl_deactivatePool(u)

SrvPoolNext ==
  \/ SrvPoolLifeNext
  \/ \E s \in Slots, u \in Users, y \in SrvPoolYields :
        ctl_distributeYield_find(s, u, y)
  \/ \E s \in Slots : ctl_distributeYield_write(s)

\* The operations that create and fund a loan on the server.
SrvFundingNext ==
  \/ \E u \in Borrowers, a \in SrvLoanAmounts, r \in SrvRates, d \in SrvDurations,
        p \in SrvPurposes, ok \in BOOLEAN : ctl_createLoan(u, a, r, d, p, ok)
  \/ \E s \in Slots, u \in Users, a \in SrvFundAmounts, ok \in BOOLEAN :
        ctl_fundLoan_find(s, u, a, ok)
  \/ \E s \in Slots, ok \in BOOLEAN : ctl_settle(s, ok)
  \/ \E s \in Slots : ctl_fundLoan_write(s)
  \/ \E s \in Slots, u \in EventLenders, a \in EventAmounts :
        svc_handleLoanFundedEvent_get(s, u, a)
  \/ \E s \in Slots : svc_handleLoanFundedEvent_update(s)

SrvNext ==
  \/ SrvFundingNext
  \/ \E s \in Slots, u \in Users, a \in SrvRepayAmounts : ctl_repayLoan_find(s, u, a)
  \/ \E s \in Slots : ctl_repayLoan_write(s)
  \/ \E s \in Slots, u \in Users, b \in UpdateBodies : ctl_updateLoan_find(s, u, b)
  \/ \E s \in Slots : ctl_updateLoan_write(s)
  \/ \E s \in Slots, u \in Users : ctl_cancelLoan_find(s, u)
  \/ \E s \in Slots : ctl_cancelLoan_write(s)
  \/ svc_handleLoanRepaidEvent
  \/ svc_handleLoanDefaultedEvent
  \/ Loan_defaultLoan

\* The operations that create and fund a loan on the chain.
ChainFundingNext ==
  \/ \E s \in Borrowers, a \in ChainLoanAmounts, r \in ChainRates,
        d \in ChainDurations, p \in {0, 1} : createLoan(s, a, r, d, p)
  \/ \E s \in Users, l \in LoanIds, v \in ChainValues : fundLoan(s, l, v)

\* ------------------------------------------------ the Reputation contract
MAX_SCORE == 2000
MIN_SCORE == 0
SUCCESSFUL_LOAN_POINTS == 50
DEFAULT_PENALTY == 100
ON_TIME_REPAYMENT_BONUS == 25
EARLY_REPAYMENT_BONUS == 10
LENDING_POINTS == 30
REFERRAL_POINTS == 20
STARTING_SCORE == 100

\* The addresses whose reputation the behaviours follow, the loanAmount the
\* loan manager reports and the points of updateCategoryScore (one category).
RepUsers == {"ann"}
RepLoanAmounts == {1}
RepPoints == {-150, 0, 900}

\* _reputations[user] before registerUser has written it.
NoReputation ==
  [registered |-> FALSE, score |-> 0, trustLevel |-> "New", totalLoans |-> 0,
   successfulLoans |-> 0, defaultedLoans |-> 0, totalLent |-> 0,
   totalBorrowed |-> 0, categoryScore |-> 0]

\* _min and _max
Rep_min(a, b) == IF a < b THEN a ELSE b
Rep_max(a, b) == IF a > b THEN a ELSE b

\* The level _updateTrustLevel derives from the new score.
updateTrustLevel_newLevel(newScore) ==
  IF newScore >= 1000 THEN "Premium"
  ELSE IF newScore >= 601 THEN "Excellent"
  ELSE IF newScore >= 301 THEN "Good"
  ELSE IF newScore >= 101 THEN "Basic"
  ELSE "New"

\* event ReputationUpdated(user, newScore, previousScore, reason)
ReputationUpdated(user, newScore, previousScore) ==
  [type |-> "ReputationUpdated", user |-> user, new |-> newScore,
   previous |-> previousScore]

\* _updateTrustLevel: the events it emits.
updateTrustLevel_events(user, previousLevel, newLevel) ==
  IF newLevel # previousLevel
    THEN <<[type |-> "TrustLevelChanged", user |-> user, new |-> newLevel,
            previous |-> previousLevel]>>
    ELSE <<>>

\* A transaction of the contract on one user's record: res is "ok" or the
\* message it reverts with, updated the record with the new counters and
\* score; _updateTrustLevel and emit ReputationUpdated end every update.
ReputationTx(fn, user, res, updated) ==
  LET previousLevel == reputations[user].trustLevel
      newLevel == updateTrustLevel_newLevel(updated.score)
  IN
  /\ OnReputation /\ Enter
  /\ lastTx' = Tx(fn, res)
  /\ IF res = "ok"
     THEN /\ reputations' = [reputations EXCEPT ![user] =
                 [updated EXCEPT !.trustLevel = newLevel]]
          /\ repLog' = updateTrustLevel_events(user, previousLevel, newLevel)
                          \o <<ReputationUpdated(user, updated.score,
                                                 reputations[user].score)>>
     ELSE /\ repLog' = <<>>
          /\ UNCHANGED reputations

\* modifier onlyRegisteredUser, and the checked subtraction of Solidity 0.8
\* (score - penalty reverts with Panic(0x11) below zero, before _max is
\* called).
Reputation_check(user, minuend, subtrahend) ==
  IF ~reputations[user].registered THEN "User not registered"
  ELSE IF minuend < subtrahend THEN "Panic(0x11)"
  ELSE "ok"

registerUser_unguarded(user) ==
  /\ OnReputation /\ Enter
  /\ lastTx' = Tx("registerUser", "ok")
  /\ reputations' = [reputations EXCEPT ![user] =
         [@ EXCEPT !.registered = TRUE, !.score = STARTING_SCORE,
                   !.trustLevel = "New"]]
  /\ repLog' = <<ReputationUpdated(user, STARTING_SCORE, 0)>>

\* registerUser(user)
registerUser(user) ==
  /\ OnReputation /\ Enter
  /\ IF reputations[user].registered
     THEN /\ lastTx' = Tx("registerUser", "User already registered")
          /\ repLog' = <<>>
          /\ UNCHANGED reputations
     ELSE /\ lastTx' = Tx("registerUser", "ok")
          /\ reputations' = [reputations EXCEPT ![user] =
                 [@ EXCEPT !.registered = TRUE, !.score = STARTING_SCORE,
                           !.trustLevel = "New"]]
          /\ repLog' = <<ReputationUpdated(user, STARTING_SCORE, 0)>>

\* updateReputationOnRepayment(borrower, loanAmount, wasOnTime, wasEarly)
updateReputationOnRepayment(borrower, loanAmount, wasOnTime, wasEarly) ==
  LET r == reputations[borrower]
      pointsToAdd == SUCCESSFUL_LOAN_POINTS
                       + (IF wasOnTime THEN ON_TIME_REPAYMENT_BONUS ELSE 0)
                       + (IF wasEarly THEN EARLY_REPAYMENT_BONUS ELSE 0)
  IN ReputationTx("updateReputationOnRepayment", borrower,
       Reputation_check(borrower, 0, 0),
       [r EXCEPT !.successfulLoans = @ + 1, !.totalLoans = @ + 1,
                 !.totalBorrowed = @ + loanAmount,
                 !.score = Rep_min(r.score + pointsToAdd, MAX_SCORE)])

\* updateReputationOnDefault(borrower, loanAmount)
updateReputationOnDefault(borrower, loanAmount) ==
  LET r == reputations[borrower] IN
  ReputationTx("updateReputationOnDefault", borrower,
    Reputation_check(borrower, r.score, DEFAULT_PENALTY),
    [r EXCEPT !.defaultedLoans = @ + 1, !.totalLoans = @ + 1,
              !.totalBorrowed = @ + loanAmount,
              !.score = Rep_max(r.score - DEFAULT_PENALTY, MIN_SCORE)])

\* updateReputationOnLending(lender, loanAmount)
updateReputationOnLending(lender, loanAmount) ==
  LET r == reputations[lender] IN
  ReputationTx("updateReputationOnLending", lender,
    Reputation_check(lender, 0, 0),
    [r EXCEPT !.totalLent = @ + loanAmount,
              !.score = Rep_min(r.score + LENDING_POINTS, MAX_SCORE)])

\* updateReputationOnReferral(referrer, referredUser)
updateReputationOnReferral(referrer) ==
  LET r == reputations[referrer] IN
  ReputationTx("updateReputationOnReferral", referrer,
    Reputation_check(referrer, 0, 0),
    [r EXCEPT !.score = Rep_min(r.score + REFERRAL_POINTS, MAX_SCORE)])

\* updateCategoryScore(user, category, points)
updateCategoryScore(user, points) ==
  LET r == reputations[user] IN
  IF points > 0
    THEN ReputationTx("updateCategoryScore", user,
           Reputation_check(user, 0, 0),
           [r EXCEPT !.categoryScore = @ + points,
                     !.score = Rep_min(r.score + points, MAX_SCORE)])
    ELSE ReputationTx("updateCategoryScore", user,
           Reputation_check(user, Rep_min(r.categoryScore, r.score), 0 - points),
           [r EXCEPT !.categoryScore = Rep_max(@ - (0 - points), 0),
                     !.score = Rep_max(r.score - (0 - points), MIN_SCORE)])

\* The external functions of the Reputation contract.
ReputationNext ==
  \/ \E u \in RepUsers : registerUser(u)
  \/ \E u \in RepUsers, a \in RepLoanAmounts, t \in BOOLEAN, e \in BOOLEAN :
        updateReputationOnRepayment(u, a, t, e)
  \/ \E u \in RepUsers, a \in RepLoanAmounts : updateReputationOnDefault(u, a)
  \/ \E u \in RepUsers, a \in RepLoanAmounts : updateReputationOnLending(u, a)
  \/ \E u \in RepUsers : updateReputationOnReferral(u)
  \/ \E u \in RepUsers, p \in RepPoints : updateCategoryScore(u, p)

RepInit ==
  /\ reputations = [u \in RepUsers |-> NoReputation]
  /\ repLog = <<>>
  /\ repDoc = NoDoc

\* -------------------------------- the server's reputation (userService)
\* Scores the server's document is followed up to.
RepScoreCap == 2100

\* The actions updateUserReputation is called with; "referral" is none of
\* the cases of its switch.
RepActions ==
  {"successful_loan", "loan_default", "lending", "on_time_repayment",
   "early_repayment", "referral"}

\* reputationDoc.exists ? reputationDoc.data() : { score: 100, ... } (the
\* counters of the document are not followed).
usersvc_reputationData ==
  IF repDoc.exists THEN repDoc
  ELSE [exists |-> TRUE, score |-> 100, trustLevel |-> "New"]

\* switch (action) of updateUserReputation: the new score.
usersvc_score(score, action) ==
  CASE action = "successful_loan" -> score + 50
    [] action = "loan_default" -> Rep_max(0, score - 100)
    [] action = "lending" -> score + 30
    [] action = "on_time_repayment" -> score + 25
    [] action = "early_repayment" -> score + 10
    [] OTHER -> score

\* "Update trust level based on score" of updateUserReputation.
usersvc_trustLevel(score) ==
  IF score >= 1000 THEN "Premium"
  ELSE IF score >= 601 THEN "Excellent"
  ELSE IF score >= 301 THEN "Good"
  ELSE IF score >= 101 THEN "Basic"
  ELSE "New"

\* userService.updateUserReputation(userId, action, metadata)
usersvc_updateUserReputation(action) ==
  LET newScore == usersvc_score(usersvc_reputationData.score, action) IN
  /\ OnRepServer
  /\ newScore <= RepScoreCap
  /\ repDoc' = [usersvc_reputationData EXCEPT
                  !.score = newScore, !.trustLevel = usersvc_trustLevel(newScore)]

RepServerNext == \E a \in RepActions : usersvc_updateUserReputation(a)

\* ------------------------------------------------ the in-memory backend
\* src/backend: userService, poolService and loanService work on the Maps
\* and Arrays of config/database.  Every service call is synchronous and runs
\* to its end before another starts.  Generated ids are taken in order of
\* creation; a user's id is the name of its account.  Time is in days.

\* Number of loans and of pools the backend creates in a behaviour, and the
\* total funding a pool is followed up to.
MaxBkLoans == 2
MaxBkPools == 1
BkFundedCap == 730

\* Inputs offered to the backend.
BkUsers == {"ann", "bob"}
BkFundings == {0, 365}
BkAmounts == {-365, 0, 365, 730}
BkRates == {10, 101}
BkDurations == {-30, 0, 30}
BkRepayAmounts == {365, 366, 732}
\* Instants of the backend's clock: after 10 days at 10 percent the interest
\* on 365 is exactly 1.
BkDays == {0, 10}

BkLoanIds == 0 .. (MaxBkLoans - 1)
BkPoolIds == 0 .. (MaxBkPools - 1)

\* An entry a Map does not hold.
BkNone == [exists |-> FALSE]

\* Entries of db.loans, db.pools.
BkLoans == {l \in BkLoanIds : db.loans[l].exists}
BkPools == {p \in BkPoolIds : db.pools[p].exists}

\* validateAmount: amount > 0 && Number.isFinite(amount)
validateAmount(amount) == amount > 0

\* validateInterestRate: rate >= 0 && rate <= 100 && Number.isFinite(rate)
validateInterestRate(rate) == rate >= 0 /\ rate <= 100

\* validateDuration: days > 0 && Number.isInteger(days)
validateDuration(days) == days > 0

\* calculateInterest: (principal * rate * days) / (100 * 365); the inputs make
\* the quotient a whole number.
calculateInterest(principal, rate, days) ==
  (principal * rate * days) \div (100 * 365)

\* userService.createUser: valid stands for the checks of the fields, the
\* email, the account id and the name.
userService_createUser(u, valid) ==
  /\ OnBackend
  /\ IF ~valid
     THEN /\ lastTx' = Tx("createUser", "400")
          /\ UNCHANGED db
     ELSE IF db.users[u].exists
     THEN /\ lastTx' = Tx("createUser", "409")
          /\ UNCHANGED db
     ELSE /\ lastTx' = Tx("createUser", "ok")
          /\ db' = [db EXCEPT !.users[u] =
                      [exists |-> TRUE, reputation |-> 100, totalBorrowed |-> 0,
                       totalRepaid |-> 0, loanCount |-> 0, poolsCreated |-> 0]]
  /\ UNCHANGED now

\* userService.updateUserReputation(userId, changeAmount): the new reputation.
userService_updateUserReputation(reputation, changeAmount) ==
  Rep_max(0, Rep_min(100, reputation + changeAmount))

\* The error poolService.createPool throws, "ok" when none.
poolService_createPool_check(poolManager, nameLen, initialFunding) ==
  IF nameLen = 0 THEN "Missing required fields"
  ELSE IF ~validateAmount(initialFunding)
    THEN "Initial funding must be a positive number"
  ELSE IF ~db.users[poolManager].exists THEN "Pool manager not found"
  ELSE "ok"

\* poolService.createPool
poolService_createPool(poolManager, nameLen, initialFunding) ==
  LET res == poolService_createPool_check(poolManager, nameLen, initialFunding)
      poolId == Cardinality(BkPools)
  IN
  /\ OnBackend
  /\ Cardinality(BkPools) < MaxBkPools
  /\ lastTx' = Tx("createPool", res)
  /\ IF res = "ok"
     THEN db' = [db EXCEPT
            !.pools[poolId] =
               [exists |-> TRUE, poolManager |-> poolManager,
                totalFunded |-> initialFunding, availableBalance |-> initialFunding,
                activeLoans |-> 0, totalLoansIssued |-> 0],
            !.users[poolManager].poolsCreated = @ + 1,
            !.poolFundings = Append(@, [poolId |-> poolId, funderId |-> poolManager,
                                        amount |-> initialFunding])]
     ELSE UNCHANGED db
  /\ UNCHANGED now

\* The error poolService.fundPool throws, "ok" when none.
poolService_fundPool_check(poolId, funderId, amount) ==
  IF ~db.pools[poolId].exists THEN "Pool not found"
  ELSE IF ~db.users[funderId].exists THEN "Funder not found"
  ELSE IF ~validateAmount(amount) THEN "Funding amount must be a positive number"
  ELSE "ok"

\* poolService.fundPool
poolService_fundPool(poolId, funderId, amount) ==
  LET res == poolService_fundPool_check(poolId, funderId, amount) IN
  /\ OnBackend
  /\ db.pools[poolId].exists => db.pools[poolId].totalFunded + amount <= BkFundedCap
  /\ lastTx' = Tx("fundPool", res)
  /\ IF res = "ok"
     THEN db' = [db EXCEPT
            !.pools[poolId].totalFunded = @ + amount,
            !.pools[poolId].availableBalance = @ + amount,
            !.poolFundings = Append(@, [poolId |-> poolId, funderId |-> funderId,
                                        amount |-> amount])]
     ELSE UNCHANGED db
  /\ UNCHANGED now

\* loanService.createLoan with the check of the pool's balance left out.
loanService_createLoan_check_anyBalance(borrowerId, poolId, amount, rate, days) ==
  IF amount = 0 \/ days = 0 THEN "Missing required fields"
  ELSE IF ~validateAmount(amount) THEN "Loan amount must be a positive number"
  ELSE IF ~validateInterestRate(rate)
    THEN "Interest rate must be between 0 and 100%"
  ELSE IF ~validateDuration(days) THEN "Duration must be a positive integer"
  ELSE IF ~db.users[borrowerId].exists THEN "Borrower not found"
  ELSE IF ~db.pools[poolId].exists THEN "Lender pool not found"
  ELSE "ok"

\* The error loanService.createLoan throws, "ok" when none (!data.amount and
\* !data.durationDays hold of 0).
loanService_createLoan_check(borrowerId, poolId, amount, rate, days) ==
  IF amount = 0 \/ days = 0 THEN "Missing required fields"
  ELSE IF ~validateAmount(amount) THEN "Loan amount must be a positive number"
  ELSE IF ~validateInterestRate(rate)
    THEN "Interest rate must be between 0 and 100%"
  ELSE IF ~validateDuration(days) THEN "Duration must be a positive integer"
  ELSE IF ~db.users[borrowerId].exists THEN "Borrower not found"
  ELSE IF ~db.pools[poolId].exists THEN "Lender pool not found"
  ELSE IF db.pools[poolId].availableBalance < amount THEN "Insufficient pool balance"
  ELSE "ok"

\* loanService.createLoan
loanService_createLoan(borrowerId, poolId, amount, interestRate, durationDays) ==
  LET res == loanService_createLoan_check(borrowerId, poolId, amount,
                                          interestRate, durationDays)
      loanId == Cardinality(BkLoans)
  IN
  /\ OnBackend
  /\ Cardinality(BkLoans) < MaxBkLoans
  /\ lastTx' = Tx("createLoan", res)
  /\ IF res = "ok"
     THEN db' = [db EXCEPT
            !.loans[loanId] =
               [exists |-> TRUE, borrowerId |-> borrowerId, poolId |-> poolId,
                amount |-> amount, principalRemaining |-> amount,
                status |-> "active", interestRate |-> interestRate,
                createdAt |-> now, dueDate |-> now + durationDays],
            !.pools[poolId].availableBalance = @ - amount,
            !.pools[poolId].activeLoans = @ + 1,
            !.pools[poolId].totalLoansIssued = @ + 1,
            !.users[borrowerId].loanCount = @ + 1,
            !.users[borrowerId].totalBorrowed = @ + amount]
     ELSE UNCHANGED db
  /\ UNCHANGED now

\* loan.principalRemaining + interest of loanService.repayLoan
loanService_totalDue(loan) ==
  loan.principalRemaining
    + calculateInterest(loan.amount, loan.interestRate, now - loan.createdAt)

\* loanService.repayLoan without the check of the loan's status.
loanService_repayLoan_check_anyStatus(loanId, repayAmount) ==
  IF ~db.loans[loanId].exists THEN "Loan not found"
  ELSE IF repayAmount < loanService_totalDue(db.loans[loanId])
    THEN "Insufficient repayment amount"
  ELSE "ok"

\* The error loanService.repayLoan throws, "ok" when none.
loanService_repayLoan_check(loanId, repayAmount) ==
  IF ~db.loans[loanId].exists THEN "Loan not found"
  ELSE IF db.loans[loanId].status = "repaid" THEN "Loan already repaid"
  ELSE IF repayAmount < loanService_totalDue(db.loans[loanId])
    THEN "Insufficient repayment amount"
  ELSE "ok"

\* loanService.repayLoan
loanService_repayLoan(loanId, repayAmount) ==
  LET res == loanService_repayLoan_check(loanId, repayAmount)
      loan == db.loans[loanId]
      interest == calculateInterest(loan.amount, loan.interestRate,
                                    now - loan.createdAt)
      principalPaid == loan.principalRemaining
  IN
  /\ OnBackend
  /\ lastTx' = Tx("repayLoan", res)
  /\ IF res = "ok"
     THEN db' = [db EXCEPT
            !.loans[loanId].principalRemaining = 0,
            !.loans[loanId].status = "repaid",
            !.users[loan.borrowerId].totalRepaid = @ + repayAmount,
            !.users[loan.borrowerId].reputation =
               userService_updateUserReputation(@, 5),
            !.pools[loan.poolId].activeLoans = Math_max0(@ - 1),
            !.pools[loan.poolId].availableBalance = @ + principalPaid + interest,
            !.repayments = Append(@, [loanId |-> loanId,
                                      borrowerId |-> loan.borrowerId,
                                      amount |-> repayAmount,
                                      interestPaid |-> interest,
                                      principalPaid |-> principalPaid])]
     ELSE UNCHANGED db
  /\ UNCHANGED now

\* Date.now() of the backend moves on to the next instant.
Bk_Date_now_Tick ==
  /\ OnBackend
  /\ \E t \in BkDays :
        /\ t > now
        /\ \A u \in BkDays : u > now => t <= u
        /\ now' = t
  /\ UNCHANGED <<db, lastTx>>

BackendNext ==
  \/ \E u \in BkUsers, valid \in BOOLEAN : userService_createUser(u, valid)
  \/ \E u \in BkUsers, n \in {0, 1}, a \in BkFundings :
        poolService_createPool(u, n, a)
  \/ \E p \in BkPoolIds, u \in BkUsers, a \in BkFundings :
        poolService_fundPool(p, u, a)
  \/ \E u \in BkUsers, p \in BkPoolIds, a \in BkAmounts, r \in BkRates,
        d \in BkDurations : loanService_createLoan(u, p, a, r, d)
  \/ \E l \in BkLoanIds, a \in BkRepayAmounts : loanService_repayLoan(l, a)
  \/ Bk_Date_now_Tick

\* db of config/database: empty Maps and Arrays.
BkInit ==
  db = [users |-> [u \in BkUsers |-> BkNone],
        loans |-> [l \in BkLoanIds |-> BkNone],
        pools |-> [p \in BkPoolIds |-> BkNone],
        repayments |-> <<>>,
        poolFundings |-> <<>>]

Init ==
  /\ ledger \in {"chain", "server", "number", "pool", "poolserver",
                  "reputation", "repserver", "backend"}
  /\ ChainInit
  /\ SrvInit
  /\ NumInit
  /\ PoolInit
  /\ RepInit
  /\ BkInit

\* CreateLoan and FundLoan requests alone.
ChainFundLoanNext == ChainFundingNext

SrvFundLoanNext ==
  \/ \E u \in Borrowers, a \in SrvLoanAmounts, r \in SrvRates, d \in SrvDurations,
        p \in SrvPurposes, ok \in BOOLEAN : ctl_createLoan(u, a, r, d, p, ok)
  \/ \E s \in Slots, u \in Users, a \in SrvFundAmounts, ok \in BOOLEAN :
        ctl_fundLoan_find(s, u, a, ok)
  \/ \E s \in Slots, ok \in BOOLEAN : ctl_settle(s, ok)
  \/ \E s \in Slots : ctl_fundLoan_write(s)

\* The requests of the loan routes other than PUT: create, fund, repay and
\* cancel.
SrvRequestsNext ==
  \/ SrvFundLoanNext
  \/ \E s \in Slots, u \in Users, a \in SrvRepayAmounts : ctl_repayLoan_find(s, u, a)
  \/ \E s \in Slots : ctl_repayLoan_write(s)
  \/ \E s \in Slots, u \in Users : ctl_cancelLoan_find(s, u)
  \/ \E s \in Slots : ctl_cancelLoan_write(s)

\* The server's create, fund and repay requests while time passes.
SrvRepayNext ==
  \/ SrvFundLoanNext
  \/ \E s \in Slots, u \in Users, a \in SrvRepayAmounts : ctl_repayLoan_find(s, u, a)
  \/ \E s \in Slots : ctl_repayLoan_write(s)
  \/ Date_now_Tick

Next == ChainNext \/ SrvNext \/ NumFundingNext

RepayNext == ChainNext \/ SrvRepayNext

RequestsNext == ChainNext \/ SrvRequestsNext

FundingNext == ChainFundingNext \/ SrvFundingNext \/ NumFundingNext

FundLoanNext == ChainFundLoanNext \/ SrvFundLoanNext \/ NumFundLoanNext

Spec == Init /\ [][Next]_vars

\* Behaviours made of CreateLoan, FundLoan and LoanFunded events only.
SpecFunding == Init /\ [][FundingNext]_vars

\* Behaviours made of CreateLoan and FundLoan requests only.
SpecFundLoan == Init /\ [][FundLoanNext]_vars

\* Behaviours made of the contract's transactions and of the server's
\* create, fund, repay and cancel requests: no PUT, no event.
SpecRequests == Init /\ [][RequestsNext]_vars

\* Behaviours made of the contract's transactions and of the server's
\* create, fund and repay requests, with the clock of the server moving.
SpecRepay == Init /\ [][RepayNext]_vars

LiquidityNext == PoolLiquidityNext \/ SrvPoolLiquidityNext

PoolLifeNext == PoolLiquidityNext \/ SrvPoolLifeNext

SettlementNext == SrvRequestsNext \/ SrvPoolNext

\* Behaviours of the server's requests that call the settlement adapter:
\* the loan requests and the pool requests.
SpecSettlement == Init /\ [][SettlementNext]_vars

\* Behaviours of the pools made of creations, AddLiquidity, RemoveLiquidity,
\* DeactivatePool on the contract and the liquidity events of the server.
SpecLiquidity == Init /\ [][LiquidityNext]_vars

\* The same with the server's activate and deactivate requests.
SpecPoolLife == Init /\ [][PoolLifeNext]_vars

YieldNext == PoolYieldNext \/ SrvPoolNext

SharesNext == PoolLiquidityNext \/ SrvPoolSharesNext

\* CreateLoan and FundLoan requests whose settlements emit LoanFunded events
\* that the listener handles.
CreditNext ==
  \/ \E u \in Borrowers, a \in SrvLoanAmounts, r \in SrvRates, d \in SrvDurations,
        p \in SrvPurposes, ok \in BOOLEAN : ctl_createLoan(u, a, r, d, p, ok)
  \/ \E s \in Slots, u \in Users, a \in SrvFundAmounts, ok \in BOOLEAN :
        ctl_fundLoan_find(s, u, a, ok)
  \/ \E s \in Slots, ok \in BOOLEAN : ctl_settle_emit(s, ok)
  \/ \E s \in Slots : ctl_fundLoan_write(s)
  \/ \E s \in Slots : svc_handleLoanFundedEvent_next(s)
  \/ \E s \in Slots : svc_handleLoanFundedEvent_update(s)

SpecCredit == Init /\ [][CreditNext]_vars

\* Behaviours of the in-memory backend.
SpecBackend == Init /\ [][BackendNext]_vars

\* Behaviours of the pools made of creations, AddLiquidity, RemoveLiquidity
\* and DeactivatePool on the contract, and of the server's liquidity requests
\* with every liquidity event handled.
SpecShares == Init /\ [][SharesNext]_vars

\* Behaviours of the pools with DistributeYield, on the contract and on the
\* server.
SpecYield == Init /\ [][YieldNext]_vars

\* Behaviours of the Reputation contract and of the server's reputation
\* updates.
SpecReputation == Init /\ [][ReputationNext \/ RepServerNext]_vars

\* ------------------------------------------ properties of the loan ledgers

Created == {l \in LoanIds : l < loanCounter}

NoDuplicates(seq) ==
  \A i, j \in 1 .. Len(seq) : i # j => seq[i] # seq[j]

\* C1: after any sequence of CreateLoan and FundLoan, every loan of either
\* ledger has fundedAmount <= amount.
C1_FundedWithinAmount ==
  /\ \A l \in Created : loans[l].fundedAmount <= loans[l].amount
  /\ loanDoc.exists => loanDoc.fundedAmount <= loanDoc.amount

\* C2: when FundLoan requests for one loan overlap, the write of each adds
\* its amount to the fundedAmount stored at that moment: no write computed
\* from a stale read replaces the credit of another request.
C2_NoStaleFundingWrite ==
  [][\A s \in Slots :
        (req[s].pc = "write" /\ req[s].op = "fund" /\ req'[s].pc = "idle")
          => loanDoc'.fundedAmount = loanDoc.fundedAmount + req[s].amount]_vars

\* The contributions of the listed lenders added up with the Number +, in the
\* order of the list.
RECURSIVE Number_sum(_, _)
Number_sum(contrib, lenders) ==
  IF lenders = <<>> THEN Number_0
  ELSE Number_plus(Number_sum(contrib, SubSeq(lenders, 1, Len(lenders) - 1)),
                   contrib[lenders[Len(lenders)]])

\* C3: in every state reached by funding operations (FundLoan, repeated
\* funding by one lender, LoanFunded events) the lender list of a loan has
\* no duplicate and the recorded contributions add up to fundedAmount.  For
\* Number amounts the sum is taken with the Number +: with at most two
\* lenders it is the exact sum rounded once, so it equals fundedAmount
\* whenever the exact sum does.
C3_LedgerConsistent ==
  /\ \A l \in Created :
        /\ NoDuplicates(loans[l].lenders)
        /\ SumOver(loans[l].lenderContributions, Users) = loans[l].fundedAmount
        /\ \A u \in Users :
              loans[l].lenderContributions[u] > 0 => u \in Range(loans[l].lenders)
  /\ loanDoc.exists =>
        /\ NoDuplicates(loanDoc.lenders)
        /\ SumOver(loanDoc.lenderContributions, Users) = loanDoc.fundedAmount
        /\ \A u \in Users :
              loanDoc.lenderContributions[u] > 0 => u \in Range(loanDoc.lenders)
  /\ numDoc.exists =>
        /\ NoDuplicates(numDoc.lenders)
        /\ Len(numDoc.lenders) <= 2
        /\ Number_sum(numDoc.lenderContributions, numDoc.lenders)
              = numDoc.fundedAmount
        /\ \A u \in Users :
              numDoc.lenderContributions[u] # Number_0 => u \in Range(numDoc.lenders)

\* C4: once a loan is repaid, the shares paid to its lenders add up to
\* exactly calculateRepaymentAmount(loan).
C4_PayoutsSumToRepayment ==
  \A l \in Created :
    loans[l].status = "Repaid"
      => SumOver(lenderShare[l], Users) = calculateRepaymentAmount(loans[l])

\* C5: a loan is Active exactly when it is fully funded: no Pending loan has
\* fundedAmount >= amount and no Active loan has fundedAmount < amount.
C5_ActiveIffFunded ==
  /\ \A l \in Created :
        /\ loans[l].status = "Pending" => loans[l].fundedAmount < loans[l].amount
        /\ loans[l].status = "Active" => loans[l].fundedAmount >= loans[l].amount
  /\ loanDoc.exists =>
        /\ loanDoc.status = "pending" => loanDoc.fundedAmount < loanDoc.amount
        /\ loanDoc.status = "active" => loanDoc.fundedAmount >= loanDoc.amount

\* The status changes the loan state machine allows.
AllowedChange(from, to) ==
  \/ from = to
  \/ <<from, to>> \in {<<"pending", "active">>, <<"active", "repaid">>,
                       <<"active", "defaulted">>, <<"pending", "cancelled">>,
                       <<"Pending", "Active">>, <<"Active", "Repaid">>,
                       <<"Active", "Defaulted">>}

\* C6: in every step a loan's status stays or moves along Pending->Active,
\* Active->Repaid, Active->Defaulted or Pending->Cancelled.
C6_StatusMachine ==
  [][/\ \A l \in Created : AllowedChange(loans[l].status, loans'[l].status)
     /\ loanDoc.exists => AllowedChange(loanDoc.status, loanDoc'.status)]_vars

\* C7: CancelLoan is accepted only for a Pending loan with fundedAmount = 0.
C7_CancelOnlyUnfunded ==
  [][\A s \in Slots :
        (req[s].pc = "idle" /\ req'[s].pc = "write" /\ req'[s].op = "cancel")
          => (loanDoc.status = "pending" /\ loanDoc.fundedAmount = 0)]_vars

\* C8: while a loan is not Pending, no funding operation changes its
\* fundedAmount, its lender list or a contribution.
C8_NoFundingUnlessPending ==
  [][/\ \A l \in Created :
          loans[l].status # "Pending"
            => /\ loans'[l].fundedAmount = loans[l].fundedAmount
               /\ loans'[l].lenders = loans[l].lenders
               /\ loans'[l].lenderContributions = loans[l].lenderContributions
     /\ (loanDoc.exists /\ loanDoc.status # "pending")
            => /\ loanDoc'.fundedAmount = loanDoc.fundedAmount
               /\ loanDoc'.lenders = loanDoc.lenders
               /\ loanDoc'.lenderContributions = loanDoc.lenderContributions]_vars

\* The answers that reject a repayment before anything is done.
RepayRejections == {"400 validation", "404", "403", "400 status"}
RepayReverts ==
  {"Loan does not exist", "Only borrower can perform this action",
   "Loan is not active"}

\* C9: a RepayLoan is accepted only while the loan is Active and for its
\* recorded borrower.  A request by anyone else, or on a loan in another
\* status, is rejected (NotBorrower / NotActive) and leaves the loan as it
\* was; and a request is never carried out (value received, status set to
\* Repaid) on a loan that is not Active at that moment.
C9_RepayOnlyActiveByBorrower ==
  [][/\ \A u \in Users, l \in LoanIds, v \in ChainValues :
          /\ (repayLoan(u, l, v)
                 /\ (loans[l].borrower # u \/ loans[l].status # "Active"))
                => /\ lastTx'.result \in RepayReverts
                   /\ loans[l].borrower # u /\ l \in Created
                        => lastTx'.result = "Only borrower can perform this action"
                   /\ UNCHANGED <<loans, lenderShare, excess, balance>>
          /\ (repayLoan(u, l, v) /\ lastTx'.result = "ok")
                => (loans[l].borrower = u /\ loans[l].status = "Active")
     /\ \A s \in Slots, u \in Users, a \in SrvRepayAmounts :
          (ctl_repayLoan_find(s, u, a)
             /\ (~loanDoc.exists \/ loanDoc.borrowerId # u
                   \/ loanDoc.status # "active"))
            => /\ response'.op = "repay"
               /\ response'.code \in RepayRejections
               /\ ~response'.settled
               /\ (loanDoc.exists /\ loanDoc.borrowerId # u) => response'.code = "403"
               /\ UNCHANGED <<loanDoc, req>>
     /\ \A s \in Slots :
          (ctl_repayLoan_write(s) /\ response'.code = "200")
            => (loanDoc.status = "active" /\ loanDoc.borrowerId = req[s].user)]_vars

\* C10: a RepayLoan below the required repayment fails and moves nothing:
\* the loan stays as it was, no lender is paid and the settlement adapter
\* has moved no value for the request.
C10_InsufficientMovesNothing ==
  [][/\ \A u \in Users, l \in LoanIds, v \in ChainValues :
          (repayLoan(u, l, v) /\ lastTx'.result = "Insufficient repayment amount")
            => UNCHANGED <<loans, lenderShare, excess, balance>>
     /\ \A s \in Slots :
          (ctl_repayLoan_write(s)
             /\ Loan_insufficient(req[s].loan, req[s].amount))
            => (loanDoc' = loanDoc /\ ~response'.settled)]_vars

\* C11: CalculateRepaymentAmount writes nothing and answers the threshold of
\* RepayLoan: the query answers calculateRepaymentAmount of the loan as stored
\* and leaves the storage as it was (so a second call answers the same); a
\* repayLoan by the borrower of an Active loan that has not expired is
\* accepted exactly when the value is at least that amount, and none is
\* accepted below it; and Loan.repayLoan on the server accepts exactly when
\* the amount is not below calculateRepaymentAmount() of the same instance.
C11_PreviewIsThreshold ==
  [][/\ \A l \in LoanIds :
          calculateRepaymentAmount_view(l)
            => /\ UNCHANGED <<loanCounter, loans, now, lenderShare, excess, balance>>
               /\ l \in Created
                    => lastTx'.result = ToString(calculateRepaymentAmount(loans'[l]))
     /\ \A u \in Users, l \in LoanIds, v \in ChainValues :
          repayLoan(u, l, v)
            => /\ loans'[l].status # loans[l].status
                    => v >= calculateRepaymentAmount(loans[l])
               /\ (l \in Created /\ loans[l].borrower = u
                     /\ loans[l].status = "Active" /\ now <= loans[l].dueDate)
                    => (loans'[l].status = "Repaid"
                          <=> v >= calculateRepaymentAmount(loans[l]))
     /\ \A s \in Slots :
          ctl_repayLoan_write(s)
            => ((loanDoc'.status = "repaid" /\ response'.code = "200")
                 <=> (req[s].amount * (DAYS_PER_YEAR * JS_RATE_DIVISOR)
                        >= Loan_repaymentScaled(req[s].loan)))]_vars

\* A preview of an Active loan whose interest is not zero has been answered.
C11_Witness ==
  /\ ledger = "chain"
  /\ lastTx = Tx("calculateRepaymentAmount", "201")
  /\ loans[0].status = "Active"

\* C12: the required repayment of every created loan is fundedAmount +
\* floor(fundedAmount * rate * duration / (year * RATE_DENOMINATOR)) with
\* RATE_DENOMINATOR the scale of the accepted rate bounds: the contract's
\* bounds are 5% and 50%, parts per hundred, and the server's Joi bounds
\* and its divisor 365 * 100 are parts per hundred as well.
C12_InterestAtBoundsScale ==
  /\ \A l \in Created :
        calculateRepaymentAmount(loans[l])
          = loans[l].fundedAmount
              + (loans[l].fundedAmount * loans[l].interestRate * loans[l].duration)
                  \div (DAYS_PER_YEAR * RATE_BOUNDS_DENOMINATOR)
  /\ loanDoc.exists =>
        Loan_repaymentScaled(loanDoc)
          = loanDoc.fundedAmount * (DAYS_PER_YEAR * RATE_BOUNDS_DENOMINATOR)
              + loanDoc.fundedAmount * loanDoc.interestRate * loanDoc.duration

\* C13: a RepayLoan by the borrower of an Active loan made after the due
\* date fails with LoanExpired whatever the amount, and the loan stays as it
\* was: on the chain the transaction reverts with "Loan has expired"; on the
\* server the request is answered before the settlement adapter is called
\* and no repayment is written to a loan that is past its due date.
C13_LateRepayRejected ==
  [][/\ \A u \in Users, l \in LoanIds, v \in ChainValues :
          (repayLoan(u, l, v) /\ l \in Created /\ loans[l].borrower = u
             /\ loans[l].status = "Active" /\ now > loans[l].dueDate)
            => /\ lastTx'.result = "Loan has expired"
               /\ UNCHANGED <<loans, lenderShare, excess, balance>>
     /\ \A s \in Slots, u \in Users, a \in SrvRepayAmounts :
          (ctl_repayLoan_find(s, u, a) /\ loanDoc.exists /\ loanDoc.borrowerId = u
             /\ loanDoc.status = "active" /\ now > loanDoc.dueDate)
            => (response'.op = "repay" /\ req' = req)
     /\ \A s \in Slots :
          (ctl_repayLoan_write(s) /\ loanDoc.status = "active"
             /\ now > loanDoc.dueDate)
            => (loanDoc' = loanDoc /\ response'.code # "200")]_vars

\* The server has recorded a repayment made after the due date.
C13_LateRepaidOnServer ==
  /\ ledger = "server"
  /\ loanDoc.exists /\ loanDoc.status = "repaid" /\ now > loanDoc.dueDate
  /\ response = Resp("repay", "200", TRUE)

\* C14: a successful RepayLoan of p >= required returns exactly p - required
\* to the borrower (0 when p is the required repayment) and leaves the loan
\* Repaid; a repayment the server carries out leaves the document repaid.
C14_ExcessReturned ==
  [][/\ \A u \in Users, l \in LoanIds, v \in ChainValues :
          (repayLoan(u, l, v) /\ lastTx'.result = "ok")
            => /\ v >= calculateRepaymentAmount(loans[l])
               /\ excess'[l] = v - calculateRepaymentAmount(loans[l])
               /\ loans'[l].status = "Repaid"
               /\ balance' + excess'[l] + SumOver(lenderShare'[l], Users)
                    = balance + v
     /\ \A s \in Slots :
          (ctl_repayLoan_write(s) /\ response'.code = "200")
            => loanDoc'.status = "repaid"]_vars

\* A repayment above the required amount has been carried out: 250 paid for
\* a repayment amount of 201.
C14_Witness ==
  /\ ledger = "chain"
  /\ lastTx = Tx("repayLoan", "ok")
  /\ loans[0].status = "Repaid" /\ calculateRepaymentAmount(loans[0]) = 201
  /\ excess[0] = 49

C16_SettlementFailureAborts ==
  [][\A s \in Slots :
       /\ (req[s].pc = "idle" /\ req'[s].pc = "settle")
            => (loanDoc' = loanDoc /\ poolDoc' = poolDoc)
       /\ (ctl_settle(s, FALSE) \/ pool_settle(s, FALSE))
            => /\ loanDoc' = loanDoc /\ poolDoc' = poolDoc
               /\ req'[s].pc = "idle"
               /\ response'.op = req[s].op
               /\ response'.code = "500 settlement"
               /\ ~response'.settled]_vars

\* The settlement of a withdrawal has failed and the contributor's share is
\* still recorded.
C16_Witness ==
  /\ ledger = "poolserver"
  /\ response = Resp("withdraw", "500 settlement", FALSE)
  /\ poolDoc.exists /\ poolDoc.currentAmount = 600
  /\ poolDoc.contributorAmounts["bob"] = 600
  /\ \A s \in Slots : Free(s)

\* The answers that refuse a request because a validation or a state check
\* has failed.
Refused(code) == code \notin {"none", "200", "201", "500 settlement"}

\* C17: a request refused by a validation or a state check has caused no
\* settlement transfer and no store write: whether it is refused when it
\* enters or when its handler returns, the settlement adapter has moved no
\* value for it and the stored loan and pool are left as they were.
C17_ChecksBeforeEffects ==
  [][/\ (served' = served + 1 /\ req' = req /\ Refused(response'.code))
          => (~response'.settled /\ loanDoc' = loanDoc /\ poolDoc' = poolDoc)
     /\ \A s \in Slots :
          (req[s].pc = "write" /\ req'[s].pc = "idle"
             /\ req[s].op \in {"fund", "repay", "contribute", "withdraw", "yield"}
             /\ Refused(response'.code))
            => (~response'.settled /\ loanDoc' = loanDoc
                  /\ poolDoc' = poolDoc)]_vars

CreatedPools == {p \in PoolIds : p < poolCounter}

\* C18: whatever AddLiquidity, RemoveLiquidity and liquidity events have
\* been processed, every pool has currentAmount <= targetAmount; and an
\* AddLiquidity on an inactive pool, of an amount <= 0 or of an amount that
\* would take currentAmount above targetAmount is rejected and leaves the
\* pool as it was.
C18_WithinTarget ==
  /\ [](/\ \A p \in CreatedPools : pools[p].currentAmount <= pools[p].targetAmount
        /\ poolDoc.exists => poolDoc.currentAmount <= poolDoc.targetAmount)
  /\ [][/\ \A u \in Users, p \in PoolIds, v \in PoolValues :
             (addLiquidity(u, p, v) /\ p \in CreatedPools
                /\ (~pools[p].active \/ v <= 0
                      \/ pools[p].currentAmount + v > pools[p].targetAmount))
               => (lastTx'.result # "ok" /\ UNCHANGED <<pools, balance>>)
        /\ \A s \in Slots, u \in Users, a \in SrvPoolAmounts, ok \in BOOLEAN :
             (ctl_contributeToPool_find(s, u, a, ok) /\ poolDoc.exists
                /\ (~poolDoc.isActive \/ a <= 0))
               => (req' = req /\ Refused(response'.code) /\ poolDoc' = poolDoc)
        /\ \A s \in Slots :
             (ctl_contributeToPool_write(s)
                /\ (~poolDoc.isActive \/ req[s].amount <= 0
                      \/ poolDoc.currentAmount + req[s].amount > poolDoc.targetAmount))
               => (poolDoc' = poolDoc /\ response'.code # "200")]_vars

C18_OverTargetByEvent ==
  /\ ledger = "poolserver"
  /\ poolDoc.exists
  /\ poolDoc.currentAmount > poolDoc.targetAmount
  /\ response = Resp("contribute", "200", TRUE)
  /\ events = <<>>

\* C19: a RemoveLiquidity of more than the caller's recorded share is
\* rejected and leaves the share and currentAmount as they were; a share
\* decreases only in a successful RemoveLiquidity of its own contributor,
\* by exactly the amount withdrawn, and is never negative.
C19_ShareOnlyWithdrawn ==
  [][/\ \A u \in Users, p \in CreatedPools, a \in PoolRemovals :
          (removeLiquidity(u, p, a) /\ a > pools[p].lenderShares[u])
            => (lastTx'.result # "ok" /\ UNCHANGED <<pools, balance>>)
     /\ \A u \in Users, p \in PoolIds :
          /\ pools'[p].lenderShares[u] >= 0
          /\ pools'[p].lenderShares[u] < pools[p].lenderShares[u]
               => \E a \in PoolRemovals :
                    /\ removeLiquidity(u, p, a)
                    /\ lastTx'.result = "ok"
                    /\ pools'[p].lenderShares[u] = pools[p].lenderShares[u] - a
     /\ \A s \in Slots, u \in Users, a \in SrvPoolWithdrawals :
          (ctl_withdrawFromPool_find(s, u, a) /\ poolDoc.exists
             /\ a > poolDoc.contributorAmounts[u])
            => (req' = req /\ Refused(response'.code) /\ poolDoc' = poolDoc)
     /\ \A s \in Slots :
          (ctl_withdrawFromPool_write(s)
             /\ req[s].amount > poolDoc.contributorAmounts[req[s].user])
            => (poolDoc' = poolDoc /\ response'.code # "200")
     /\ \A u \in Users :
          (poolDoc.exists /\ poolDoc'.exists)
            => /\ poolDoc'.contributorAmounts[u] >= 0
               /\ poolDoc'.contributorAmounts[u] < poolDoc.contributorAmounts[u]
                    => \E s \in Slots :
                         /\ ctl_withdrawFromPool_write(s)
                         /\ req[s].user = u
                         /\ response'.code = "200"
                         /\ poolDoc'.contributorAmounts[u]
                              = poolDoc.contributorAmounts[u] - req[s].amount]_vars

C19_SecondDebitPending ==
  /\ ledger = "poolserver"
  /\ response = Resp("withdraw", "200", TRUE)
  /\ \E s \in Slots :
       /\ req[s].pc = "write" /\ req[s].op = "LiquidityRemoved"
       /\ req[s].loan = poolDoc
       /\ poolDoc.contributorAmounts[req[s].user] >= req[s].amount

C21_YieldProRata ==
  [][/\ \A c \in Users, p \in CreatedPools, y \in PoolYields :
          (distributeYield(c, p, y) /\ lastTx'.result = "ok")
            => /\ \A u \in Users :
                    \E q \in 0 .. y :
                      /\ q * pools[p].currentAmount <= y * pools[p].lenderShares[u]
                      /\ y * pools[p].lenderShares[u] < (q + 1) * pools[p].currentAmount
                      /\ pools'[p].lenderYield[u] = pools[p].lenderYield[u] + q
               /\ pools'[p].lenderShares = pools[p].lenderShares
               /\ pools'[p].currentAmount = pools[p].currentAmount
     /\ \A s \in Slots :
          (ctl_distributeYield_write(s) /\ response'.code = "200")
            => /\ \A u \in Users :
                    \E q \in 0 .. req[s].amount :
                      /\ q * poolDoc.currentAmount
                           <= req[s].amount * poolDoc.contributorAmounts[u]
                      /\ req[s].amount * poolDoc.contributorAmounts[u]
                           < (q + 1) * poolDoc.currentAmount
                      /\ poolDoc'.contributorYield[u] = poolDoc.contributorYield[u] + q
               /\ poolDoc'.contributorAmounts = poolDoc.contributorAmounts
               /\ poolDoc'.currentAmount = poolDoc.currentAmount]_vars

\* Shares 4000 and 2000 with two yields of 50: floor(50 * 4000 / 6000) = 33
\* and floor(50 * 2000 / 6000) = 16, twice.
C21_Witness ==
  /\ ledger = "pool"
  /\ lastTx = Tx("distributeYield", "ok")
  /\ pools[0].lenderShares["bob"] = 4000
  /\ pools[0].lenderShares["cy"] = 2000
  /\ pools[0].lenderYield["bob"] = 66
  /\ pools[0].lenderYield["cy"] = 32

\* C22: in every DistributeYield the yields credited to the contributors sum
\* to at most totalYield, and what the floors leave over is credited by the
\* remainder policy, so that the credits account for the whole of totalYield.
C22_WholeYieldAccounted ==
  [][\A c \in Users, p \in CreatedPools, y \in PoolYields :
       (distributeYield(c, p, y) /\ lastTx'.result = "ok")
         => LET credited == SumOver([u \in Users |->
                               pools'[p].lenderYield[u] - pools[p].lenderYield[u]],
                             Users)
            IN  credited <= y /\ credited = y]_vars

C22_RemainderDropped ==
  /\ ledger = "pool"
  /\ lastTx = Tx("distributeYield", "ok")
  /\ pools[0].lenderShares["bob"] = 4000
  /\ pools[0].lenderShares["cy"] = 2000
  /\ pools[0].lenderYield["bob"] = 33
  /\ pools[0].lenderYield["cy"] = 16
  /\ pools[0].lenderYield["ann"] = 0

\* C23: DistributeYield is rejected and credits no yield to anyone when the
\* caller is not the creator of the pool, when totalYield <= 0 or when the
\* pool's currentAmount is 0.
C23_YieldRejections ==
  [][/\ \A c \in Users, p \in CreatedPools, y \in PoolYields :
          (distributeYield(c, p, y)
             /\ (c # pools[p].creator \/ y <= 0 \/ pools[p].currentAmount = 0))
            => (lastTx'.result # "ok" /\ UNCHANGED <<pools, balance>>)
     /\ \A s \in Slots, u \in Users, y \in SrvPoolYields :
          (ctl_distributeYield_find(s, u, y) /\ poolDoc.exists
             /\ u # poolDoc.creatorId)
            => (req' = req /\ Refused(response'.code) /\ poolDoc' = poolDoc)
     /\ \A s \in Slots :
          (ctl_distributeYield_write(s)
             /\ (req[s].amount <= 0 \/ poolDoc.currentAmount = 0))
            => (response'.code # "200" /\ poolDoc' = poolDoc)]_vars

C23_Witness ==
  /\ ledger = "pool"
  /\ lastTx = Tx("distributeYield", "Only pool creator can perform this action")
  /\ pools[0].currentAmount > 0
  /\ \A u \in Users : pools[0].lenderYield[u] = 0

\* C24: after any sequence of reputation updates the score of a registered
\* user lies in [0, MAX_SCORE]; an update that would exceed MAX_SCORE sets the
\* score to MAX_SCORE, and a penalty larger than the current score sets it to
\* 0, the update succeeding.
C24_ScoreClamped ==
  /\ [](/\ \A u \in RepUsers :
             reputations[u].registered
               => (reputations[u].score >= 0 /\ reputations[u].score <= MAX_SCORE)
        /\ repDoc.exists => (repDoc.score >= 0 /\ repDoc.score <= MAX_SCORE))
  /\ [][/\ \A u \in RepUsers :
             reputations[u].registered
               => /\ \A a \in RepLoanAmounts :
                       (updateReputationOnDefault(u, a)
                          /\ reputations[u].score < DEFAULT_PENALTY)
                         => (lastTx'.result = "ok" /\ reputations'[u].score = 0)
                  /\ \A p \in RepPoints :
                       /\ (updateCategoryScore(u, p) /\ 0 - p > reputations[u].score)
                            => (lastTx'.result = "ok" /\ reputations'[u].score = 0)
                       /\ (updateCategoryScore(u, p)
                             /\ reputations[u].score + p > MAX_SCORE)
                            => (lastTx'.result = "ok"
                                  /\ reputations'[u].score = MAX_SCORE)
        /\ \A a \in RepActions :
             (usersvc_updateUserReputation(a) /\ repDoc.exists)
               => /\ (a = "loan_default" /\ repDoc.score < 100) => repDoc'.score = 0
                  /\ (a = "successful_loan" /\ repDoc.score + 50 > MAX_SCORE)
                       => repDoc'.score = MAX_SCORE]_vars

C24_ServerAboveMaxScore ==
  /\ ledger = "repserver"
  /\ repDoc.exists
  /\ repDoc.score > MAX_SCORE

\* The trust tier of a score by the fixed thresholds: New below 101, Basic
\* below 301, Good below 601, Excellent below 1001, Premium from 1001.
TierOfScore(score) ==
  IF score < 101 THEN "New"
  ELSE IF score < 301 THEN "Basic"
  ELSE IF score < 601 THEN "Good"
  ELSE IF score < 1001 THEN "Excellent"
  ELSE "Premium"

\* C25: in every reachable state the trust tier of a user is the threshold
\* function of the user's current score, right after registration and after
\* every update of the score.
C25_TierIsFunctionOfScore ==
  /\ \A u \in RepUsers :
       reputations[u].registered
         => reputations[u].trustLevel = TierOfScore(reputations[u].score)
  /\ repDoc.exists => repDoc.trustLevel = TierOfScore(repDoc.score)

C25_PremiumAtThousand ==
  /\ ledger = "reputation"
  /\ reputations["ann"].registered
  /\ reputations["ann"].score = 1000
  /\ reputations["ann"].trustLevel = "Premium"

\* The tier-change notifications among the events of the last transaction.
TierNotifications == SelectSeq(repLog, LAMBDA e : e.type = "TrustLevelChanged")

\* C26: every operation that changes a user's score re-derives the tier, and
\* it emits a tier-change notification exactly when the tier derived from
\* the new score differs from the tier stored before the update: an update
\* that leaves the tier the same emits none.
C26_TierChangeNotified ==
  [][\A u \in RepUsers :
       (reputations[u].registered /\ reputations'[u].score # reputations[u].score)
         => /\ reputations'[u].trustLevel = TierOfScore(reputations'[u].score)
            /\ IF TierOfScore(reputations'[u].score) # reputations[u].trustLevel
               THEN TierNotifications'
                      = <<[type |-> "TrustLevelChanged", user |-> u,
                           new |-> TierOfScore(reputations'[u].score),
                           previous |-> reputations[u].trustLevel]>>
               ELSE TierNotifications' = <<>>]_vars

C26_SpuriousNotification ==
  /\ ledger = "reputation"
  /\ reputations["ann"].score = 1000
  /\ TierNotifications
       = <<[type |-> "TrustLevelChanged", user |-> "ann", new |-> "Premium",
            previous |-> "Excellent"]>>

\* C27: each reputation outcome changes the score by its fixed delta, as long
\* as the clamps are not reached: a successful repayment adds 50, plus 25 when
\* on time, plus 10 when early; a default subtracts 100; lending adds 30; a
\* referral adds 20.
C27_FixedDeltas ==
  [][/\ \A u \in RepUsers, a \in RepLoanAmounts :
          LET old == reputations[u].score
              new == reputations'[u].score
          IN reputations[u].registered
               => /\ \A t \in BOOLEAN, e \in BOOLEAN :
                       LET delta == 50 + (IF t THEN 25 ELSE 0) + (IF e THEN 10 ELSE 0)
                       IN (updateReputationOnRepayment(u, a, t, e)
                             /\ old + delta <= MAX_SCORE)
                            => (lastTx'.result = "ok" /\ new = old + delta)
                  /\ (updateReputationOnDefault(u, a) /\ old >= 100)
                       => (lastTx'.result = "ok" /\ new = old - 100)
                  /\ (updateReputationOnLending(u, a) /\ old + 30 <= MAX_SCORE)
                       => (lastTx'.result = "ok" /\ new = old + 30)
                  /\ (updateReputationOnReferral(u) /\ old + 20 <= MAX_SCORE)
                       => (lastTx'.result = "ok" /\ new = old + 20)
     /\ \A act \in RepActions :
          LET old == IF repDoc.exists THEN repDoc.score ELSE 100 IN
          usersvc_updateUserReputation(act)
            => /\ act = "successful_loan" => repDoc'.score = old + 50
               /\ act = "on_time_repayment" => repDoc'.score = old + 25
               /\ act = "early_repayment" => repDoc'.score = old + 10
               /\ (act = "loan_default" /\ old >= 100) => repDoc'.score = old - 100
               /\ act = "lending" => repDoc'.score = old + 30
               /\ act = "referral" => repDoc'.score = old + 20]_vars

\* C28: RegisterUser on an id already registered fails with AlreadyRegistered
\* and leaves the user's record (score, tier, counters) as it was; on a new
\* id it creates a record with the starting score 100 and the tier New.
C28_RegisterOnce ==
  [][\A u \in RepUsers :
       /\ (registerUser(u) /\ reputations[u].registered)
            => /\ lastTx' = Tx("registerUser", "User already registered")
               /\ reputations' = reputations
       /\ (registerUser(u) /\ ~reputations[u].registered)
            => /\ lastTx' = Tx("registerUser", "ok")
               /\ reputations'[u] = [NoReputation EXCEPT !.registered = TRUE,
                                                        !.score = 100,
                                                        !.trustLevel = "New"]]_vars

C28_Witness ==
  /\ ledger = "reputation"
  /\ lastTx = Tx("registerUser", "User already registered")
  /\ reputations["ann"].registered
  /\ reputations["ann"].score = 185
  /\ reputations["ann"].trustLevel = "Basic"
  /\ reputations["ann"].successfulLoans = 1

\* ------------------------------------------------------------- CreateLoan

C30_DefaultOnlyFromActive ==
  [][(Loan_defaultLoan \/ svc_handleLoanDefaultedEvent) =>
       IF loanDoc.status = "active"
       THEN /\ loanDoc'.status = "defaulted"
            /\ loanDoc'.defaultedAt = <<now>>
            /\ repDoc'.exists
            /\ repDoc'.score =
                 Rep_max(MIN_SCORE, usersvc_reputationData.score - DEFAULT_PENALTY)
       ELSE UNCHANGED <<loanDoc, repDoc>>]_vars

\* A loan that nobody funded is defaulted, and no reputation document was
\* written.
C30_DefaultedUnfunded ==
  /\ ledger = "server"
  /\ loanDoc.exists
  /\ loanDoc.status = "defaulted"
  /\ loanDoc.fundedAmount = 0
  /\ loanDoc.lenders = <<>>
  /\ ~repDoc.exists

\* ------------------------------------------------ overlapping pool updates

\* C31: the updates of one pool are serialized.  Every write of a pool
\* operation is the operation applied to the document as it is stored when the
\* write happens, so overlapping operations leave the shares and currentAmount
\* of one of their sequential orders: no update is lost and no share is
\* debited below what is recorded.
C31_PoolUpdatesSerialized ==
  [][\A s \in Slots :
       /\ ctl_contributeToPool_write(s) =>
            \/ UNCHANGED poolDoc
            \/ poolDoc' = Pool_addContribution(poolDoc, req[s].user, req[s].amount)
       /\ ctl_withdrawFromPool_write(s) =>
            \/ UNCHANGED poolDoc
            \/ /\ req[s].amount <= poolDoc.contributorAmounts[req[s].user]
               /\ poolDoc' = Pool_removeContribution(poolDoc, req[s].user,
                                                     req[s].amount)
       /\ poolsvc_handleLiquidityAddedEvent_update(s) =>
            poolDoc' = FirestoreUpdate(poolDoc,
              poolsvc_handleLiquidityAddedEvent_fields(poolDoc, req[s].user,
                                                       req[s].amount))
       /\ poolsvc_handleLiquidityRemovedEvent_update(s) =>
            poolDoc' = FirestoreUpdate(poolDoc,
              poolsvc_handleLiquidityRemovedEvent_fields(poolDoc, req[s].user,
                                                         req[s].amount))]_vars

\* An event handler is about to write amounts computed from a document that
\* another operation has changed since the handler read it.
C31_StaleEventWrite ==
  /\ ledger = "poolserver"
  /\ \E s \in Slots :
       /\ req[s].pc = "write"
       /\ req[s].op \in {"LiquidityAdded", "LiquidityRemoved"}
       /\ req[s].loan.currentAmount # poolDoc.currentAmount

\* ------------------------------------------------- funding one's own loan

\* C32: a FundLoan requested by the borrower of the loan is rejected and
\* leaves fundedAmount and the lender list of the loan as they were.
C32_OwnLoanNotFunded ==
  [][/\ \A u \in Users, l \in Created, v \in ChainValues :
          (fundLoan(u, l, v) /\ loans[l].borrower = u)
            => /\ lastTx'.result # "ok"
               /\ loans'[l].fundedAmount = loans[l].fundedAmount
               /\ loans'[l].lenders = loans[l].lenders
     /\ \A s \in Slots, u \in Users, a \in SrvFundAmounts, ok \in BOOLEAN :
          (ctl_fundLoan_find(s, u, a, ok) /\ loanDoc.exists
             /\ loanDoc.borrowerId = u)
            => /\ req' = req /\ Refused(response'.code)
               /\ loanDoc' = loanDoc]_vars

\* The borrower of a loan on the contract is one of its lenders.
C32_BorrowerIsLender ==
  /\ ledger = "chain"
  /\ \E l \in Created :
       /\ loans[l].borrower \in Range(loans[l].lenders)
       /\ loans[l].lenderContributions[loans[l].borrower] > 0

\* ---------------------------------------------------- shares of a pool

\* C33: in every reachable state of a pool, the recorded shares of its
\* contributors add up to its currentAmount.
C33_SharesSumToCurrentAmount ==
  /\ \A p \in CreatedPools :
        SumOver(pools[p].lenderShares, Users) = pools[p].currentAmount
  /\ poolDoc.exists =>
        SumOver(poolDoc.contributorAmounts, Users) = poolDoc.currentAmount

\* The stored pool holds more than its contributors' shares add up to, or
\* less, with no event left to handle.
C33_SharesOffCurrentAmount ==
  /\ ledger = "poolserver"
  /\ poolDoc.exists
  /\ events = <<>>
  /\ \A s \in Slots : Free(s)
  /\ SumOver(poolDoc.contributorAmounts, Users) # poolDoc.currentAmount

\* ------------------------------------------------ the pools' principal

C35_NoResidualValue ==
  (ledger = "chain" /\ Created # {} /\ \A l \in Created : loans[l].status = "Repaid")
    => balance = 0

\* A repaid loan whose funding is still held by the manager.
C35_FundingKept ==
  /\ ledger = "chain"
  /\ \E l \in Created :
       /\ loans[l].status = "Repaid"
       /\ lastTx = Tx("repayLoan", "ok")
       /\ balance >= loans[l].fundedAmount
       /\ loans[l].fundedAmount > 0

\* ----------------------------------------------------------- overdue loans

\* C36: for every active loan whose due date has passed without repayment,
\* some enabled operation moves it to a terminal status (repaid or
\* defaulted); no loan is stuck where neither can be reached.  On the server
\* the case is taken while the bound on the requests served still admits one.
C36_OverdueCanEnd ==
  /\ \A l \in Created :
        (ledger = "chain" /\ loans[l].status = "Active" /\ now > loans[l].dueDate)
          => ENABLED (ChainNext /\ loans'[l].status \in {"Repaid", "Defaulted"})
  /\ (ledger = "server" /\ loanDoc.exists /\ loanDoc.status = "active"
        /\ now > loanDoc.dueDate /\ served < MaxRequests)
          => ENABLED (SrvNext /\ loanDoc'.status \in {"repaid", "defaulted"})

\* An active loan of the contract is past its due date.
C36_OverdueOnChain ==
  /\ ledger = "chain"
  /\ \E l \in Created : loans[l].status = "Active" /\ now > loans[l].dueDate

\* ------------------------------------------------ crediting one funding

\* The amounts of the fundings of the log made by the lenders of a set.
RECURSIVE LogAmount(_, _)
LogAmount(log, lenders) ==
  IF log = <<>> THEN 0
  ELSE (IF Head(log).lender \in lenders THEN Head(log).amount ELSE 0)
         + LogAmount(Tail(log), lenders)

\* C37: each successful funding is credited to the stored loan exactly once.
\* When every handler has returned and every LoanFunded event has been
\* handled, fundedAmount is the sum of the fundings settled and each lender's
\* contribution is the sum of that lender's fundings: none is counted twice
\* and none is lost.
C37_CreditedOnce ==
  (/\ ledger = "server" /\ loanDoc.exists
   /\ \A s \in Slots : Free(s)
   /\ \A i \in 1 .. Len(events) : events[i].handled)
    => /\ loanDoc.fundedAmount = LogAmount(events, Users)
       /\ \A u \in Users : loanDoc.lenderContributions[u] = LogAmount(events, {u})

\* One funding of 60 was settled and handled, and the loan records 120.
C37_CreditedTwice ==
  /\ ledger = "server" /\ loanDoc.exists
  /\ \A s \in Slots : Free(s)
  /\ Len(events) = 1 /\ events[1].handled
  /\ loanDoc.fundedAmount = 2 * events[1].amount

\* -------------------------------------------------------------- UpdateLoan

\* C38: an UpdateLoan by the borrower leaves the accounting fields of the
\* loan (status, fundedAmount, lenders, lenderContributions and borrowerId)
\* as they were, so it neither takes the loan out of pending nor makes
\* fundedAmount exceed amount.
C38_UpdateKeepsAccounting ==
  [][\A s \in Slots :
       ctl_updateLoan_write(s) =>
         /\ loanDoc'.status = loanDoc.status
         /\ loanDoc'.fundedAmount = loanDoc.fundedAmount
         /\ loanDoc'.lenders = loanDoc.lenders
         /\ loanDoc'.lenderContributions = loanDoc.lenderContributions
         /\ loanDoc'.borrowerId = loanDoc.borrowerId]_vars

\* An update has made a loan active that nobody has funded.
C38_ActiveByUpdate ==
  /\ ledger = "server"
  /\ response = Resp("update", "200", FALSE)
  /\ loanDoc.status = "active"
  /\ loanDoc.fundedAmount = 0
  /\ loanDoc.lenders = <<>>

\* ------------------------------------------------ the in-memory backend

\* C39: in the in-memory backend every pool has availableBalance >= 0 after
\* any sequence of createPool, fundPool, createLoan and repayLoan, and a
\* createLoan for more than the pool's availableBalance is rejected and
\* changes neither the pool, the borrower nor the loan table.
C39_AvailableBalance ==
  /\ [](ledger = "backend" =>
          \A p \in BkPoolIds :
             db.pools[p].exists => db.pools[p].availableBalance >= 0)
  /\ [][\A u \in BkUsers, p \in BkPoolIds, a \in BkAmounts, r \in BkRates,
          d \in BkDurations :
          (loanService_createLoan(u, p, a, r, d) /\ db.pools[p].exists
             /\ a > db.pools[p].availableBalance)
            => (lastTx'.result # "ok" /\ UNCHANGED db)]_vars

\* A loan of 730 was refused by a pool that holds less, after that pool had
\* lent and been repaid.
C39_Witness ==
  /\ ledger = "backend"
  /\ lastTx = Tx("createLoan", "Insufficient pool balance")
  /\ db.repayments # <<>>
  /\ \E p \in BkPools :
       /\ db.pools[p].availableBalance < 730
       /\ db.pools[p].totalLoansIssued = 1

\* The repayment records of a loan.
RepaymentsOf(table, loanId) == SelectSeq(table, LAMBDA r : r.loanId = loanId)

\* C40: in the in-memory backend a loan is repaid at most once.  A repayLoan
\* on a loan already repaid fails, records no repayment and changes no pool
\* or borrower total; a successful repayLoan leaves the loan repaid with
\* principalRemaining 0 and exactly one repayment record; and no loan ever
\* has more than one record.
C40_RepaidAtMostOnce ==
  /\ [](ledger = "backend" =>
          \A l \in BkLoans :
             Len(RepaymentsOf(db.repayments, l))
               = IF db.loans[l].status = "repaid" THEN 1 ELSE 0)
  /\ [][\A l \in BkLoanIds, a \in BkRepayAmounts :
          loanService_repayLoan(l, a) =>
            IF db.loans[l].exists /\ db.loans[l].status = "repaid"
            THEN lastTx'.result # "ok" /\ UNCHANGED db
            ELSE lastTx'.result = "ok" =>
                   /\ db'.loans[l].status = "repaid"
                   /\ db'.loans[l].principalRemaining = 0
                   /\ Len(RepaymentsOf(db'.repayments, l)) = 1]_vars

\* A second repayLoan on a repaid loan was refused.
C40_Witness ==
  /\ ledger = "backend"
  /\ lastTx = Tx("repayLoan", "Loan already repaid")
  /\ \E l \in BkLoans :
       /\ db.loans[l].status = "repaid"
       /\ db.loans[l].principalRemaining = 0
       /\ Len(RepaymentsOf(db.repayments, l)) = 1
====
